---- MODULE Spec2Model ----
(***************************************************************************)
(* A model of the poop interpreter (src/poop.js, the JavaScript port of    *)
(* src/poop.hs) and of its web host (src/ui.js).                           *)
(*                                                                         *)
(* Source text, tokens and output are TLA+ strings; the lexer works on     *)
(* their characters.  A node is a record with the fields of the object     *)
(* literal that the Node class of poop.js builds.  A function of the       *)
(* program that can throw returns a record with a field err, which is      *)
(* NoErr when nothing was thrown and the Error's message otherwise.        *)
(***************************************************************************)
EXTENDS Integers, Sequences, FiniteSets, TLC

VARIABLES
    source,      \* codeArea.value, the text handed to run(source)
    lazyMode,    \* this.lazyMode
    pc,          \* where the run stands: idle, running, awaiting, done, failed, hung
    prog,        \* the node sequence runEval holds
    macros,      \* this.macros
    output,      \* the texts passed to outputFn, in order
    errlog,      \* the messages passed to logFn by the catch of run
    reads,       \* number of inputFn calls of the run
    tick,        \* parity of the number of calls of step made in the run
    last,        \* what the last call of step did
    rt,          \* the round trip parse / stringify / parse of the source
    other        \* another run, which a run overlaps or is compared with

vars ==
    <<source, lazyMode, pc, prog, macros, output, errlog, reads, tick, last, rt, other>>

----------------------------------------------------------------------------
(* Bounds of the model *)

\* longest sequence of nodes written in one body or argument list
MaxSeq == 2
\* most lines a user submits in one run
MaxLines == 2
\* largest program (in nodes) from which the model follows a further step
MaxSize == 12
\* most writes after which the model follows a further step
MaxWrites == 3
\* most passes of expandMacrosDeep that the model follows before it reports
\* that the loop does not end
ExpandFuel == 4
\* most raw words of a generated source text in the round trip
MaxWords == 4
\* most pieces of a word handed to Print
MaxPieces == 4

----------------------------------------------------------------------------
(* Strings *)

NoErr == ""

\* the value of a single-valued set: The({e(v) : v \in {d}}) is e(d), with d
\* evaluated once
The(S) == CHOOSE v \in S : TRUE

Char(s, i) == SubSeq(s, i, i)

startsWith(s, p) == Len(s) >= Len(p) /\ SubSeq(s, 1, Len(p)) = p

endsWith(s, p) == Len(s) >= Len(p) /\ SubSeq(s, Len(s) - Len(p) + 1, Len(s)) = p

\* what /\s/ matches among the characters of the model
IsSpace(c) == c \in {" ", "\t", "\n", "\r"}

RECURSIVE joinWith(_, _)
joinWith(strs, sep) ==
    IF strs = <<>> THEN ""
    ELSE IF Len(strs) = 1 THEN strs[1]
    ELSE strs[1] \o sep \o joinWith(Tail(strs), sep)

RECURSIVE jsonChars(_, _)
jsonChars(s, i) ==
    IF i > Len(s) THEN ""
    ELSE LET c == Char(s, i)
             e == CASE c = "\"" -> "\\\""
                    [] c = "\\" -> "\\\\"
                    [] c = "\n" -> "\\n"
                    [] c = "\r" -> "\\r"
                    [] c = "\t" -> "\\t"
                    [] OTHER    -> c
         IN  e \o jsonChars(s, i + 1)

\* JSON.stringify of a string
jsonString(s) == "\"" \o jsonChars(s, 1) \o "\""

\* JSON.stringify of an array of strings
jsonArray(strs) ==
    "[" \o joinWith([k \in 1..Len(strs) |-> jsonString(strs[k])], ",") \o "]"

----------------------------------------------------------------------------
(* Data structures (AST) *)

Token(s) == [type |-> "Token", value |-> s]

Literal(s) == [type |-> "Literal", value |-> s]

Func(p, body) == [type |-> "Func", param |-> p, body |-> body]

MacroDef(n, body) == [type |-> "MacroDef", name |-> n, body |-> body]

Apply(f, arg) == [type |-> "Apply", func |-> f, args |-> arg]

\* the value of xs[0] when xs is empty
Undefined == [type |-> "undefined"]

RECURSIVE toCodeString(_), nodesToCodeString(_)
toCodeString(node) ==
    CASE node.type = "Token"    -> node.value
      [] node.type = "Literal"  -> node.value
      [] node.type = "Func"     ->
            "poop " \o node.param \o " poops " \o nodesToCodeString(node.body) \o " qooq"
      [] node.type = "MacroDef" ->
            "poop " \o node.name \o " is " \o nodesToCodeString(node.body) \o " qooq"
      [] node.type = "Apply"    ->
            "pooping " \o toCodeString(node.func) \o " poopy "
                \o nodesToCodeString(node.args) \o " qooq"
      [] OTHER                  -> ""

nodesToCodeString(nodes) ==
    joinWith([k \in 1..Len(nodes) |-> toCodeString(nodes[k])], " ")

RECURSIVE nodeToOutputString(_), nodesToOutputString(_)

\* nodeToOutputString, were a literal of four characters rendered as a space
nodeToOutputStringOfOld(node) ==
    CASE node.type = "Token"    -> node.value
      [] node.type = "Literal"  ->
            IF Len(node.value) <= 4 THEN " "
            ELSE SubSeq(node.value, 3, Len(node.value) - 2)
      [] node.type = "Func"     ->
            "poop " \o node.param \o " poops " \o nodesToOutputString(node.body) \o " qooq"
      [] node.type = "MacroDef" ->
            "poop " \o node.name \o " is " \o nodesToOutputString(node.body) \o " qooq"
      [] node.type = "Apply"    ->
            "pooping " \o nodesToOutputString(<<node.func>>) \o " poopy "
                \o nodesToOutputString(node.args) \o " qooq"
      [] OTHER                  -> ""

nodeToOutputString(node) ==
    CASE node.type = "Token"    -> node.value
      [] node.type = "Literal"  ->
            LET s == node.value
            IN  IF Len(s) <= 4 THEN "" ELSE SubSeq(s, 3, Len(s) - 2)
      [] node.type = "Func"     ->
            "poop " \o node.param \o " poops " \o nodesToOutputString(node.body) \o " qooq"
      [] node.type = "MacroDef" ->
            "poop " \o node.name \o " is " \o nodesToOutputString(node.body) \o " qooq"
      [] node.type = "Apply"    ->
            "pooping " \o nodeToOutputString(node.func) \o " poopy "
                \o nodesToOutputString(node.args) \o " qooq"
      [] OTHER                  -> ""

\* nodesToOutputString, were the renderings joined with a space
nodesToOutputStringSpaced(nodes) ==
    joinWith([k \in 1..Len(nodes) |-> nodeToOutputString(nodes[k])], " ")

nodesToOutputString(nodes) ==
    joinWith([k \in 1..Len(nodes) |-> nodeToOutputString(nodes[k])], "")

----------------------------------------------------------------------------
(* Lexer *)

\* what the scanning loops of the lexer look for at index j of str
At(str, j, what) ==
    CASE what = "commentStart" -> /\ Char(str, j) = "/"
                                  /\ j + 1 <= Len(str)
                                  /\ Char(str, j + 1) \in {"/", "*"}
      [] what = "newline"      -> Char(str, j) = "\n"
      [] what = "commentEnd"   -> /\ Char(str, j) = "*"
                                  /\ j + 1 <= Len(str)
                                  /\ Char(str, j + 1) = "/"
      [] what = "text"         -> ~IsSpace(Char(str, j))
      [] what = "blank"        -> IsSpace(Char(str, j))

\* the least index i >= from of str where what is found, or Len(str) + 1 when
\* there is none: where a loop "while (i < n && !found(i)) i++" started at from
\* ends
FirstFrom(str, from, what) ==
    IF from > Len(str) THEN from
    ELSE CHOOSE i \in from..(Len(str) + 1) :
             /\ i = Len(str) + 1 \/ At(str, i, what)
             /\ \A j \in from..(i - 1) : ~At(str, j, what)

\* The loop of removeComments from index i on.  The characters up to the next
\* comment are copied; the recursion is per comment.
RECURSIVE removeCommentsFrom(_, _)
removeCommentsFrom(str, i) ==
    IF i > Len(str) THEN ""
    ELSE The({ SubSeq(str, i, c - 1) \o
               ( IF c > Len(str) THEN ""
                 ELSE IF Char(str, c + 1) = "/"
                      THEN removeCommentsFrom(str, FirstFrom(str, c + 2, "newline"))
                 ELSE The({ IF e <= Len(str) THEN " " \o removeCommentsFrom(str, e + 2)
                            ELSE ""
                            : e \in {FirstFrom(str, c + 2, "commentEnd")} }) )
               : c \in {FirstFrom(str, i, "commentStart")} })

removeComments(str) == removeCommentsFrom(str, 1)

RECURSIVE unescapeFrom(_, _)
unescapeFrom(str, i) ==
    IF i > Len(str) THEN ""
    ELSE IF Char(str, i) = "\\" /\ i + 1 <= Len(str)
         THEN LET next == Char(str, i + 1)
                  c == CASE next = "n"  -> "\n"
                         [] next = "t"  -> "\t"
                         [] next = "r"  -> "\r"
                         [] next = "s"  -> " "
                         [] next = "\\" -> "\\"
                         [] OTHER       -> next
              IN  c \o unescapeFrom(str, i + 2)
    ELSE Char(str, i) \o unescapeFrom(str, i + 1)

unescapeStr(str) == unescapeFrom(str, 1)

\* the indices from i on where a fragment of s starts: a character that is not
\* blank and follows a blank (or is the first looked at)
FragmentStarts(s, i) ==
    { b \in i..Len(s) : /\ ~IsSpace(Char(s, b))
                        /\ b = i \/ IsSpace(Char(s, b - 1)) }

\* cleaned.split(/\s+/).filter(t => t.length > 0), from index i on: the k-th
\* fragment runs from the k-th start to the next blank
splitSpaces(s, i) ==
    The({ [k \in 1..Cardinality(starts) |->
              The({ SubSeq(s, b, FirstFrom(s, b, "blank") - 1)
                    : b \in { c \in starts :
                                Cardinality({ d \in starts : d < c }) = k - 1 } })]
          : starts \in {FragmentStarts(s, i)} })

tokenize(s) ==
    The({ [k \in 1..Len(rawTokens) |-> unescapeStr(rawTokens[k])]
          : rawTokens \in {splitSpaces(removeComments(s), 1)} })

LowerOrUnderscore ==
    {"a", "b", "c", "d", "e", "f", "g", "h", "i", "j", "k", "l", "m", "n", "o", "p",
     "q", "r", "s", "t", "u", "v", "w", "x", "y", "z", "_"}

isVarName(s) ==
    /\ Len(s) > 0
    /\ \A i \in 1..Len(s) : Char(s, i) \in LowerOrUnderscore

Keywords == {"poop", "pooping", "qooq", "poops", "poopy", "is"}

isLiteral(s) ==
    IF s \in Keywords THEN FALSE
    ELSE startsWith(s, "Po") /\ endsWith(s, "op") /\ Len(s) >= 4

----------------------------------------------------------------------------
(* Parser *)

\* a parse function returns [err, nodes, rest]
Parsed(nodes, rest) == [err |-> NoErr, nodes |-> nodes, rest |-> rest]

ParseError(msg) == [err |-> msg, nodes |-> <<>>, rest |-> <<>>]

RECURSIVE parseExprs(_), parsePoop(_), parsePooping(_)
parseExprs(tokens) ==
    IF Len(tokens) = 0 THEN Parsed(<<>>, <<>>)
    ELSE LET t == Head(tokens)
             ts == Tail(tokens)
         IN  IF t = "qooq" \/ t = "poopy" THEN Parsed(<<>>, tokens)
             ELSE IF t = "poop" \/ t = "pooping"
                  THEN The({ IF one.err # NoErr THEN one
                             ELSE The({ IF sib.err # NoErr THEN sib
                                        ELSE Parsed(one.nodes \o sib.nodes, sib.rest)
                                        : sib \in {parseExprs(one.rest)} })
                             : one \in {IF t = "poop" THEN parsePoop(ts)
                                        ELSE parsePooping(ts)} })
             ELSE The({ IF sib.err # NoErr THEN sib
                        ELSE Parsed(<<IF isLiteral(t) THEN Literal(t) ELSE Token(t)>>
                                        \o sib.nodes, sib.rest)
                        : sib \in {parseExprs(ts)} })

\* parsePoop, were no name refused
parsePoopAnyName(tokens) ==
    IF Len(tokens) < 2 \/ tokens[2] \notin {"is", "poops"}
    THEN ParseError("Expected 'is' or 'poops'")
    ELSE The({ IF b.err # NoErr THEN b
               ELSE IF Len(b.rest) > 0 /\ b.rest[1] = "qooq"
                    THEN Parsed(<<IF tokens[2] = "is" THEN MacroDef(tokens[1], b.nodes)
                                  ELSE Func(tokens[1], b.nodes)>>, Tail(b.rest))
               ELSE ParseError("Missing 'qooq'")
               : b \in {parseExprs(Tail(Tail(tokens)))} })

parsePoop(tokens) ==
    IF Len(tokens) = 0 THEN ParseError("Unexpected end of file after 'poop'")
    ELSE LET name == Head(tokens)
             ts == Tail(tokens)
         IN  IF Len(ts) > 0 /\ ts[1] = "is"
             THEN IF isVarName(name) \/ name \in {"\n", "\r", "\t", "\\"}
                  THEN ParseError("Illegal macro name (cannot be variable format or escape char): "
                                  \o jsonString(name))
                  ELSE The({ IF b.err # NoErr THEN b
                             ELSE IF Len(b.rest) > 0 /\ b.rest[1] = "qooq"
                                  THEN Parsed(<<MacroDef(name, b.nodes)>>, Tail(b.rest))
                             ELSE ParseError("Missing 'qooq' for macro definition: " \o name)
                             : b \in {parseExprs(Tail(ts))} })
             ELSE IF Len(ts) > 0 /\ ts[1] = "poops"
             THEN IF ~isVarName(name)
                  THEN ParseError("Invalid parameter name (must be [a-z_]+): "
                                  \o jsonString(name))
                  ELSE The({ IF b.err # NoErr THEN b
                             ELSE IF Len(b.rest) > 0 /\ b.rest[1] = "qooq"
                                  THEN Parsed(<<Func(name, b.nodes)>>, Tail(b.rest))
                             ELSE ParseError("Missing 'qooq' for function: " \o name)
                             : b \in {parseExprs(Tail(ts))} })
             ELSE ParseError("Expected 'is' or 'poops' after 'poop " \o name \o "'")

\* calleeNode, were the first node taken when there are several
calleeNodeFirst(nodes) == IF Len(nodes) = 0 THEN Token("") ELSE nodes[1]

\* the node that stands for the nodes parsed in callee position
calleeNode(nodes) ==
    IF Len(nodes) = 1 THEN nodes[1]
    ELSE Token(joinWith([k \in 1..Len(nodes) |-> toCodeString(nodes[k])], " "))

parsePooping(tokens) ==
    The({ IF f.err # NoErr THEN f
          ELSE IF Len(f.rest) > 0 /\ f.rest[1] = "poopy"
               THEN The({ IF a.err # NoErr THEN a
                          ELSE IF Len(a.rest) > 0 /\ a.rest[1] = "qooq"
                               THEN Parsed(<<Apply(calleeNode(f.nodes), a.nodes)>>,
                                           Tail(a.rest))
                          ELSE ParseError("Expected 'poopy' in 'pooping' structure")
                          : a \in {parseExprs(Tail(f.rest))} })
          ELSE ParseError("Expected 'poopy' in 'pooping' structure")
          : f \in {parseExprs(tokens)} })

\* parseProgram, were every leftover token named in the error
parseProgramNamingAll(code) ==
    The({ IF p.err # NoErr THEN [err |-> p.err, nodes |-> <<>>]
          ELSE IF Len(p.rest) > 0
               THEN [err |-> "Unexpected tokens at end: " \o jsonArray(p.rest),
                     nodes |-> <<>>]
          ELSE [err |-> NoErr, nodes |-> p.nodes]
          : p \in {parseExprs(tokenize(code))} })

\* returns [err, nodes]
parseProgram(code) ==
    The({ IF p.err # NoErr THEN [err |-> p.err, nodes |-> <<>>]
          ELSE IF Len(p.rest) > 0
               THEN [err |-> "Unexpected tokens at end: "
                                 \o jsonArray(SubSeq(p.rest, 1,
                                                     IF Len(p.rest) < 5 THEN Len(p.rest)
                                                     ELSE 5)),
                     nodes |-> <<>>]
          ELSE [err |-> NoErr, nodes |-> p.nodes]
          : p \in {parseExprs(tokenize(code))} })

----------------------------------------------------------------------------
(* Evaluator helpers *)

\* the TypeError of reading .type of undefined
TypeErr == "Cannot read properties of undefined (reading 'type')"

has(env, name) == name \in DOMAIN env

\* isPrintable, were every node but an application printable
isPrintableLoose(env, node) == node.type # "Apply"

isPrintable(env, node) ==
    IF node.type = "Token" THEN node.value # "Input" /\ ~has(env, node.value)
    ELSE IF node.type = "Literal" THEN TRUE
    ELSE FALSE

RECURSIVE isReduced(_, _)
isReduced(env, node) ==
    IF node.type = "Token" THEN node.value # "Input" /\ ~has(env, node.value)
    ELSE IF node.type = "Literal" THEN TRUE
    ELSE IF node.type \in {"Func", "MacroDef"}
         THEN \A k \in 1..Len(node.body) : isReduced(env, node.body[k])
    ELSE FALSE

\* a || b of two evaluations that yield "true", "false" or "throw"
OrElse(a, b) == The({ IF x = "false" THEN b ELSE x : x \in {a} })

\* containsPrint yields "true", "false" or, when it reads .type of an
\* undefined callee, "throw"
RECURSIVE containsPrint(_), someContainsPrint(_)

\* containsPrint, were an application of Print never found
containsPrintNever(node) == "false"

containsPrint(node) ==
    IF node.type = "Apply"
    THEN IF node.func = Undefined THEN "throw"
         ELSE IF node.func.type = "Token" /\ node.func.value = "Print" THEN "true"
         ELSE OrElse(containsPrint(node.func), someContainsPrint(node.args))
    ELSE IF node.type \in {"Func", "MacroDef"} THEN someContainsPrint(node.body)
    ELSE "false"

\* nodes.some(containsPrint)
someContainsPrint(nodes) ==
    IF nodes = <<>> THEN "false"
    ELSE OrElse(containsPrint(Head(nodes)), someContainsPrint(Tail(nodes)))

\* JSON.parse(JSON.stringify(node)) builds a structurally equal node (a callee
\* that is undefined is dropped by stringify and read back as undefined)
deepCopy(node) == node

deepCopyList(nodes) == [k \in 1..Len(nodes) |-> deepCopy(nodes[k])]

\* substitute returns [err, nodes]; substituteNode is the body of its loop
RECURSIVE substitute(_, _, _), substituteNode(_, _, _)
substitute(param, argNodes, nodes) ==
    IF nodes = <<>> THEN [err |-> NoErr, nodes |-> <<>>]
    ELSE The({ IF one.err # NoErr THEN [err |-> one.err, nodes |-> <<>>]
               ELSE The({ IF more.err # NoErr THEN more
                          ELSE [err |-> NoErr, nodes |-> one.nodes \o more.nodes]
                          : more \in {substitute(param, argNodes, Tail(nodes))} })
               : one \in {substituteNode(param, argNodes, Head(nodes))} })

\* substituteNode, were the parameter substituted under a binder of its name
substituteNodeThrough(param, argNodes, n) ==
    IF n = Undefined THEN [err |-> TypeErr, nodes |-> <<>>]
    ELSE IF n.type = "Token" /\ n.value = param
         THEN [err |-> NoErr, nodes |-> deepCopyList(argNodes)]
    ELSE IF n.type = "Token" THEN [err |-> NoErr, nodes |-> <<Token(n.value)>>]
    ELSE IF n.type = "Literal" THEN [err |-> NoErr, nodes |-> <<Literal(n.value)>>]
    ELSE IF n.type = "Func"
         THEN The({ [err |-> b.err, nodes |-> <<Func(n.param, b.nodes)>>]
                    : b \in {substitute(param, argNodes, n.body)} })
    ELSE IF n.type = "MacroDef"
         THEN The({ [err |-> b.err, nodes |-> <<MacroDef(n.name, b.nodes)>>]
                    : b \in {substitute(param, argNodes, n.body)} })
    ELSE IF n.type = "Apply"
         THEN The({ IF f.err # NoErr THEN f
                    ELSE The({ [err |-> a.err,
                                nodes |-> <<Apply(IF Len(f.nodes) = 0 THEN Undefined
                                                  ELSE f.nodes[1], a.nodes)>>]
                               : a \in {substitute(param, argNodes, n.args)} })
                    : f \in {substitute(param, argNodes, <<n.func>>)} })
    ELSE [err |-> NoErr, nodes |-> <<>>]

\* substituteNode, were the body of a function left alone when its parameter
\* is a token of the arguments (no capture)
substituteNodeAvoiding(param, argNodes, n) ==
    IF n = Undefined THEN [err |-> TypeErr, nodes |-> <<>>]
    ELSE IF n.type = "Token" /\ n.value = param
         THEN [err |-> NoErr, nodes |-> deepCopyList(argNodes)]
    ELSE IF n.type \in {"Token", "Literal"} THEN [err |-> NoErr, nodes |-> <<n>>]
    ELSE IF n.type = "Func"
         THEN IF n.param = param \/ \E k \in 1..Len(argNodes) : argNodes[k] = Token(n.param)
              THEN [err |-> NoErr, nodes |-> <<Func(n.param, deepCopyList(n.body))>>]
              ELSE The({ [err |-> b.err, nodes |-> <<Func(n.param, b.nodes)>>]
                         : b \in {substitute(param, argNodes, n.body)} })
    ELSE IF n.type = "MacroDef"
         THEN The({ [err |-> b.err, nodes |-> <<MacroDef(n.name, b.nodes)>>]
                    : b \in {substitute(param, argNodes, n.body)} })
    ELSE IF n.type = "Apply"
         THEN The({ IF f.err # NoErr THEN f
                    ELSE The({ [err |-> a.err,
                                nodes |-> <<Apply(IF Len(f.nodes) = 0 THEN Undefined
                                                  ELSE f.nodes[1], a.nodes)>>]
                               : a \in {substitute(param, argNodes, n.args)} })
                    : f \in {substitute(param, argNodes, <<n.func>>)} })
    ELSE [err |-> NoErr, nodes |-> <<>>]

substituteNode(param, argNodes, n) ==
    IF n = Undefined THEN [err |-> TypeErr, nodes |-> <<>>]
    ELSE IF n.type = "Token" /\ n.value = param
         THEN [err |-> NoErr, nodes |-> deepCopyList(argNodes)]
    ELSE IF n.type = "Token" THEN [err |-> NoErr, nodes |-> <<Token(n.value)>>]
    ELSE IF n.type = "Literal" THEN [err |-> NoErr, nodes |-> <<Literal(n.value)>>]
    ELSE IF n.type = "Func"
         THEN IF n.param = param
              THEN [err |-> NoErr, nodes |-> <<Func(n.param, deepCopyList(n.body))>>]
              ELSE The({ [err |-> b.err, nodes |-> <<Func(n.param, b.nodes)>>]
                         : b \in {substitute(param, argNodes, n.body)} })
    ELSE IF n.type = "MacroDef"
         THEN The({ [err |-> b.err, nodes |-> <<MacroDef(n.name, b.nodes)>>]
                    : b \in {substitute(param, argNodes, n.body)} })
    ELSE IF n.type = "Apply"
         THEN The({ IF f.err # NoErr THEN f
                    ELSE The({ [err |-> a.err,
                                nodes |-> <<Apply(IF Len(f.nodes) = 0 THEN Undefined
                                                  ELSE f.nodes[1], a.nodes)>>]
                               : a \in {substitute(param, argNodes, n.args)} })
                    : f \in {substitute(param, argNodes, <<n.func>>)} })
    ELSE [err |-> NoErr, nodes |-> <<>>]

----------------------------------------------------------------------------
(* Macro expansion *)

\* expandOnceNodes returns [err, nodes, changed]
Expanded(nodes, changed) == [err |-> NoErr, nodes |-> nodes, changed |-> changed]

\* expandNode is the body of the loop of expandOnceNodes, r what the loop
\* makes of the nodes after n
RECURSIVE expandOnceNodes(_, _), expandNode(_, _, _)
expandOnceNodes(nodes, env) ==
    IF Len(nodes) = 0 THEN Expanded(<<>>, FALSE)
    ELSE The({ expandNode(Head(nodes), r, env) : r \in {expandOnceNodes(Tail(nodes), env)} })

\* expandNode, were a Literal looked up in the macro table as a Token is
expandNodeByName(n, r, env) ==
    IF r.err # NoErr THEN r
    ELSE IF n.type \in {"Token", "Literal"} /\ has(env, n.value)
         THEN Expanded(deepCopyList(env[n.value]) \o r.nodes, TRUE)
    ELSE Expanded(<<n>> \o r.nodes, r.changed)

expandNode(n, r, env) ==
    IF n = Undefined THEN [err |-> TypeErr, nodes |-> <<>>, changed |-> FALSE]
    ELSE IF n.type = "Token"
         THEN IF r.err # NoErr THEN r
              ELSE IF has(env, n.value)
                   THEN Expanded(deepCopyList(env[n.value]) \o r.nodes, TRUE)
              ELSE Expanded(<<n>> \o r.nodes, r.changed)
    ELSE IF n.type = "Literal"
         THEN IF r.err # NoErr THEN r
              ELSE Expanded(<<n>> \o r.nodes, r.changed)
    ELSE IF n.type \in {"Func", "MacroDef"}
         THEN The({ IF b.err # NoErr THEN b
                    ELSE IF r.err # NoErr THEN r
                    ELSE Expanded(<<IF n.type = "Func" THEN Func(n.param, b.nodes)
                                    ELSE MacroDef(n.name, b.nodes)>> \o r.nodes,
                                  b.changed \/ r.changed)
                    : b \in {expandOnceNodes(n.body, env)} })
    ELSE IF n.type = "Apply"
         THEN The({ IF f.err # NoErr THEN f
                    ELSE The({ IF a.err # NoErr THEN a
                               ELSE IF r.err # NoErr THEN r
                               ELSE Expanded(<<Apply(calleeNode(f.nodes), a.nodes)>>
                                                 \o r.nodes,
                                             f.changed \/ a.changed \/ r.changed)
                               : a \in {expandOnceNodes(n.args, env)} })
                    : f \in {expandOnceNodes(<<n.func>>, env)} })
    ELSE Expanded(<<>>, FALSE)

\* The while (true) loop of expandMacrosDeep, followed for at most fuel + 1
\* passes; hang says that the last pass followed still reported a change.
RECURSIVE expandLoop(_, _, _, _)
expandLoop(current, accChanged, env, fuel) ==
    The({ IF e.err # NoErr
          THEN [err |-> e.err, hang |-> FALSE, nodes |-> <<>>, changed |-> FALSE]
          ELSE IF ~e.changed
          THEN [err |-> NoErr, hang |-> FALSE, nodes |-> e.nodes, changed |-> accChanged]
          ELSE IF fuel = 0
          THEN [err |-> NoErr, hang |-> TRUE, nodes |-> <<>>, changed |-> FALSE]
          ELSE expandLoop(e.nodes, TRUE, env, fuel - 1)
          : e \in {expandOnceNodes(current, env)} })

\* returns [err, hang, nodes, changed]
expandMacrosDeep(nodes, env) == expandLoop(nodes, FALSE, env, ExpandFuel)

----------------------------------------------------------------------------
(* One step of reduction *)

(***************************************************************************)
(* reduceFirst(nodes, env, lazy, line) is the call this.reduceFirst(nodes) *)
(* made when this.macros = env and this.lazyMode = lazy, and line is the   *)
(* text that inputFn resolves with if the call awaits it.  It returns      *)
(*   nodes, changed  the pair the call returns,                            *)
(*   macros          this.macros when the call ends,                       *)
(*   out             the texts it passed to outputFn, in order,            *)
(*   reads           the number of times it called inputFn,                *)
(*   err             the message of the Error it threw, or NoErr,          *)
(*   hang            TRUE when it entered a loop of expandMacrosDeep that  *)
(*                   the model did not see end.                            *)
(***************************************************************************)
Result(nodes, changed, env) ==
    [nodes |-> nodes, changed |-> changed, macros |-> env, out |-> <<>>, reads |-> 0,
     err |-> NoErr, hang |-> FALSE]

Thrown(msg, env) ==
    [nodes |-> <<>>, changed |-> FALSE, macros |-> env, out |-> <<>>, reads |-> 0,
     err |-> msg, hang |-> FALSE]

Hung(env) ==
    [nodes |-> <<>>, changed |-> FALSE, macros |-> env, out |-> <<>>, reads |-> 0,
     err |-> NoErr, hang |-> TRUE]

\* the call did not return
Bad(r) == r.err # NoErr \/ r.hang

\* what call b did, made after call a returned
After(a, b) ==
    The({ [x EXCEPT !.out = a.out \o x.out, !.reads = a.reads + x.reads] : x \in {b} })

\* the value returned in place of r's, with r's effects
Return(r, nodes, changed) == [r EXCEPT !.nodes = nodes, !.changed = changed]

\* reduceInput, were a line that does not parse read as no nodes
reduceInputLenient(rest, env, line) ==
    The({ IF p.err # NoErr THEN [Result(rest, TRUE, env) EXCEPT !.reads = 1]
          ELSE [Result(p.nodes \o rest, TRUE, env) EXCEPT !.reads = 1]
          : p \in {parseProgram(line)} })

\* PRIORITY 1: Input
reduceInput(rest, env, line) ==
    The({ IF p.err # NoErr THEN [Thrown(p.err, env) EXCEPT !.reads = 1]
          ELSE [Result(p.nodes \o rest, TRUE, env) EXCEPT !.reads = 1]
          : p \in {parseProgram(line)} })

\* reduceMacroDef, were a definition that repeats the registered body accepted
reduceMacroDefSameBody(n, rest, env) ==
    IF has(env, n.name) /\ env[n.name] # n.body
    THEN Thrown("Macro redefinition error: " \o n.name, env)
    ELSE Result(rest, TRUE, (n.name :> n.body) @@ env)

\* reduceMacroDef, were a second definition to replace the first
reduceMacroDefOverwriting(n, rest, env) ==
    Result(rest, TRUE, (n.name :> n.body) @@ env)

\* PRIORITY 2: Macro Definition
reduceMacroDef(n, rest, env) ==
    IF has(env, n.name) THEN Thrown("Macro redefinition error: " \o n.name, env)
    ELSE Result(rest, TRUE, (n.name :> n.body) @@ env)

\* reducePrint, were the step not reported as a change
reducePrintUnchanged(args, rest, env) ==
    [Result(args \o rest, FALSE, env) EXCEPT !.out = <<nodesToOutputString(args)>>]

\* reducePrint, were the text written twice
reducePrintTwice(args, rest, env) ==
    [Result(args \o rest, TRUE, env)
        EXCEPT !.out = <<nodesToOutputString(args), nodesToOutputString(args)>>]

\* the Print built-in applied to printable arguments
reducePrint(args, rest, env) ==
    [Result(args \o rest, TRUE, env) EXCEPT !.out = <<nodesToOutputString(args)>>]

\* a macro name in callee position (after 4a found nothing to reduce)
reduceMacroCallee(func, args, rest, env) ==
    Result(<<Apply(IF Len(env[func.value]) = 1 THEN env[func.value][1]
                   ELSE Token("ERROR_MACRO_SINGLE"), args)>> \o rest, TRUE, env)

\* calleeOf, were a callee that was reduced always replaced by ERROR
calleeOfLost(newFunc) == Token("ERROR")

\* 4a: the callee that replaces func when reducing it changed it
calleeOf(newFunc) == IF Len(newFunc) = 1 THEN newFunc[1] ELSE Token("ERROR")

\* betaReduce, were the arguments kept after the body
betaReduceKeepingArgs(func, args, rest, env) ==
    The({ IF s.err # NoErr THEN Thrown(s.err, env)
          ELSE Result(s.nodes \o args \o rest, TRUE, env)
          : s \in {substitute(func.param, args, func.body)} })

\* substitute(func.param, args, func.body) spliced before rest
betaReduce(func, args, rest, env) ==
    The({ IF s.err # NoErr THEN Thrown(s.err, env)
          ELSE Result(s.nodes \o rest, TRUE, env)
          : s \in {substitute(func.param, args, func.body)} })

RECURSIVE reduceFirst(_, _, _, _), reduceRest(_, _, _, _, _), reduceLoneFunc(_, _, _, _, _),
          reduceApply(_, _, _, _, _), applyAfterCallee(_, _, _, _, _, _),
          legacyApply(_, _, _, _, _, _), argsThenRest(_, _, _, _, _, _)
reduceFirst(nodes, env, lazy, line) ==
    IF Len(nodes) = 0 THEN Result(<<>>, FALSE, env)
    ELSE LET n == Head(nodes)
             rest == Tail(nodes)
         IN  IF n = Undefined THEN Thrown(TypeErr, env)
             ELSE IF n.type = "Token" /\ n.value = "Input" THEN reduceInput(rest, env, line)
             ELSE IF n.type = "MacroDef" THEN reduceMacroDef(n, rest, env)
             ELSE IF n.type = "Token"
                  THEN IF has(env, n.value)
                       THEN Result(deepCopyList(env[n.value]) \o rest, TRUE, env)
                       ELSE reduceRest(n, rest, env, lazy, line)
             ELSE IF n.type = "Apply" THEN reduceApply(n, rest, env, lazy, line)
             ELSE IF n.type = "Func" THEN reduceLoneFunc(n, rest, env, lazy, line)
             ELSE reduceRest(n, rest, env, lazy, line)

\* reduceRest, were n moved behind the reduced nodes
reduceRestBehind(n, rest, env, lazy, line) ==
    The({ IF Bad(r) THEN r ELSE Return(r, r.nodes \o <<n>>, r.changed)
          : r \in {reduceFirst(rest, env, lazy, line)} })

\* reduce the nodes after n and keep n
reduceRest(n, rest, env, lazy, line) ==
    The({ IF Bad(r) THEN r ELSE Return(r, <<n>> \o r.nodes, r.changed)
          : r \in {reduceFirst(rest, env, lazy, line)} })

\* PRIORITY LOW: Function Definitions (Macro expansion only)
reduceLoneFunc(n, rest, env, lazy, line) ==
    The({ IF e.hang THEN Hung(env)
          ELSE IF e.err # NoErr THEN Thrown(e.err, env)
          ELSE IF e.changed THEN Result(<<Func(n.param, e.nodes)>> \o rest, TRUE, env)
          ELSE reduceRest(Func(n.param, n.body), rest, env, lazy, line)
          : e \in {expandMacrosDeep(n.body, env)} })

\* PRIORITY 4: Function Application.  4a. Reduce the function head first
reduceApply(n, rest, env, lazy, line) ==
    The({ applyAfterCallee(n.func, n.args, rest, f, lazy, line)
          : f \in {reduceFirst(<<n.func>>, env, lazy, line)} })

\* the application of func to args once the call f that reduced the callee
\* alone has been made
applyAfterCallee(func, args, rest, f, lazy, line) ==
    IF Bad(f) THEN f
    ELSE IF f.changed THEN Return(f, <<Apply(calleeOf(f.nodes), args)>> \o rest, TRUE)
    ELSE IF func.type = "Func"
         THEN IF lazy THEN After(f, betaReduce(func, args, rest, f.macros))
              ELSE legacyApply(func, args, rest, f, lazy, line)
    ELSE IF func.type = "Token"
         THEN IF func.value = "Print"
              THEN IF \A k \in 1..Len(args) : isPrintable(f.macros, args[k])
                   THEN After(f, reducePrint(args, rest, f.macros))
                   ELSE argsThenRest(Token("Print"), args, rest, f, lazy, line)
              ELSE IF has(f.macros, func.value)
                   THEN After(f, reduceMacroCallee(func, args, rest, f.macros))
              ELSE argsThenRest(func, args, rest, f, lazy, line)
    ELSE IF func.type = "Apply"
         THEN The({ IF Bad(inner) THEN inner
                    ELSE IF inner.changed /\ Len(inner.nodes) > 0
                         THEN Return(inner, <<Apply(inner.nodes[1], args)>> \o rest, TRUE)
                    ELSE argsThenRest(func, args, rest, inner, lazy, line)
                    : inner \in {After(f, reduceFirst(<<Apply(func.func, func.args)>>,
                                                      f.macros, lazy, line))} })
    ELSE argsThenRest(func, args, rest, f, lazy, line)

\* legacyApply, were the body substituted at once as under the lazy strategy
legacyApplyAtOnce(func, args, rest, f, lazy, line) ==
    After(f, betaReduce(func, args, rest, f.macros))

\* the legacy strategy: expand the macros of the body, substitute at once when
\* the body contains a Print, else reduce the arguments first
legacyApply(func, args, rest, f, lazy, line) ==
    The({ IF e.hang THEN After(f, Hung(f.macros))
          ELSE IF e.err # NoErr THEN After(f, Thrown(e.err, f.macros))
          ELSE IF e.changed
               THEN Return(f, <<Apply(Func(func.param, e.nodes), args)>> \o rest, TRUE)
          ELSE The({ IF cp = "throw" THEN After(f, Thrown(TypeErr, f.macros))
                     ELSE IF cp = "true" THEN After(f, betaReduce(func, args, rest, f.macros))
                     ELSE The({ IF Bad(a) THEN a
                                ELSE IF a.changed
                                     THEN Return(a, <<Apply(func, a.nodes)>> \o rest, TRUE)
                                ELSE After(a, betaReduce(func, args, rest, a.macros))
                                : a \in {After(f, reduceFirst(args, f.macros, lazy, line))} })
                     : cp \in {someContainsPrint(func.body)} })
          : e \in {expandMacrosDeep(func.body, f.macros)} })

\* argsThenRest, were an application that cannot be reduced an error
argsThenRestFailing(c, args, rest, before, lazy, line) ==
    The({ IF Bad(a) THEN a
          ELSE IF a.changed THEN Return(a, <<Apply(c, a.nodes)>> \o rest, TRUE)
          ELSE After(a, Thrown("Stuck application", a.macros))
          : a \in {After(before, reduceFirst(args, before.macros, lazy, line))} })

\* argsThenRest, were the nodes after the application reduced in the step that
\* reduced its arguments
argsThenRestBoth(c, args, rest, before, lazy, line) ==
    The({ IF Bad(a) THEN a
          ELSE The({ IF Bad(r) THEN r
                     ELSE Return(r, <<Apply(c, a.nodes)>> \o r.nodes,
                                 a.changed \/ r.changed)
                     : r \in {After(a, reduceFirst(rest, a.macros, lazy, line))} })
          : a \in {After(before, reduceFirst(args, before.macros, lazy, line))} })

\* reduce the arguments, else the nodes after the application, around the
\* callee c; before is what the step did so far
argsThenRest(c, args, rest, before, lazy, line) ==
    The({ IF Bad(a) THEN a
          ELSE IF a.changed THEN Return(a, <<Apply(c, a.nodes)>> \o rest, TRUE)
          ELSE The({ IF Bad(r) THEN r
                     ELSE Return(r, <<Apply(c, args)>> \o r.nodes, r.changed)
                     : r \in {After(a, reduceFirst(rest, a.macros, lazy, line))} })
          : a \in {After(before, reduceFirst(args, before.macros, lazy, line))} })

step(nodes, env, lazy, line) == reduceFirst(nodes, env, lazy, line)

----------------------------------------------------------------------------
(* Source texts and input lines of the model *)

\* the sequences over S of length at most n
SeqsUpTo(S, n) == UNION {[1..k -> S] : k \in 0..n}

\* the texts of at most n words of S, separated by one space
Texts(S, n) == {joinWith(ws, " ") : ws \in SeqsUpTo(S, n)}

\* poop <param-name> poops <function-body> qooq
srcFunc(p, body) == "poop " \o p \o " poops " \o body \o " qooq"

\* poop <macro-name> is <content> qooq
srcMacro(n, body) == "poop " \o n \o " is " \o body \o " qooq"

\* pooping <poop> poopy <argument> qooq
srcApply(f, arg) == "pooping " \o f \o " poopy " \o arg \o " qooq"

\* two texts, one after the other
srcThen(a, b) == IF a = "" THEN b ELSE IF b = "" THEN a ELSE a \o " " \o b

FuncBodies ==
    Texts({"x", "M"}, MaxSeq)
        \cup {"y", "PoHiop", srcApply("Print", "x"), srcApply("Print", "PoHiop")}

ArgTexts ==
    Texts({"PoHiop", "Input"}, MaxSeq)
        \cup {"y", "M", srcApply("Print", "PoHiop"), srcMacro("M", "y"), srcMacro("N", "M")}

CalleeTexts ==
    {"Print", "M", "y", "PoHiop", "Input", srcMacro("M", "y")}
        \cup {srcFunc("x", b) : b \in FuncBodies}
        \cup {srcApply("Print", a) : a \in {"", "y", "y PoHiop"}}

MacroBodies == {"", "M", "y", "y y", srcFunc("x", "x"), srcFunc("x", "y")}

Preludes == {""} \cup {srcMacro("M", b) : b \in MacroBodies}

Mains ==
    {srcApply(c, a) : c \in CalleeTexts, a \in ArgTexts}
        \cup {srcMacro("M", b) : b \in {"", "y", "M"}}
        \cup {"M", "Input", srcFunc("x", "M")}

Trailers == {srcApply("Print", "y")}

\* The example of the README, the default code of the page and the scenarios
\* of the manual
Examples ==
    { "pooping Print poopy PoHiop qooq",
      "poop Id is poop x poops x qooq qooq pooping Print poopy pooping Id poopy PoYoop qooq qooq",
      "poop Greet is poop name poops Hello Poop name qooq qooq pooping Print poopy pooping Greet poopy World qooq qooq",
      "// Example: Hello World in poop\npoop Greet is\n  poop name poops\n    PoHello\\sop name\n  qooq\nqooq\n\npooping Print poopy\n  pooping Greet poopy\n    PoWorldop\n  qooq\nqooq",
      "poop A is B qooq poop B is A qooq A" }

\* texts that parseProgram rejects
Malformed ==
    { "poop", "poop M", "poop M is y", "poop x is y qooq", "poop M poops y qooq",
      "poop x poops y", "pooping M y qooq", "pooping M poopy y", "y qooq", "poopy",
      "poop \\n is y qooq" }

Sources ==
    {srcThen(p, m) : p \in Preludes, m \in Mains}
        \cup {srcThen(m, t) : m \in Mains, t \in Trailers}
        \cup Examples \cup Malformed

\* the lines a user types for Input
Lines == {"y", "PoHiop y", "qooq", srcMacro("M", "y")}

----------------------------------------------------------------------------
(* The run: run(source), runEval and the host that starts it *)

EmptyEnv == [name \in {} |-> <<>>]

NoStep ==
    [kind |-> "none", before |-> <<>>, env |-> EmptyEnv, line |-> "", changed |-> FALSE,
     out |-> <<>>, reads |-> 0, err |-> NoErr, hang |-> FALSE, nodes |-> <<>>,
     macros |-> EmptyEnv]

\* the record of a call of step: what it was given and what it did
StepRecord(kind, line, r) ==
    [kind |-> kind, before |-> prog, env |-> macros, line |-> line, changed |-> r.changed,
     out |-> r.out, reads |-> r.reads, err |-> r.err, hang |-> r.hang, nodes |-> r.nodes,
     macros |-> r.macros]

NoParse == [err |-> NoErr, nodes |-> <<>>]

NoRoundTrip == [phase |-> "none", first |-> NoParse, code |-> "", second |-> NoParse]

\* no other run was started
NoOther == [pc |-> "idle", prog |-> <<>>]

RECURSIVE Size(_)
Size(nodes) ==
    IF nodes = <<>> THEN 0
    ELSE LET n == Head(nodes)
             here == CASE n.type \in {"Func", "MacroDef"} -> 1 + Size(n.body)
                       [] n.type = "Apply" -> 1 + Size(<<n.func>>) + Size(n.args)
                       [] OTHER -> 1
         IN  here + Size(Tail(nodes))

\* the run is followed while the program and its output stay within the bounds
WithinBounds == Size(prog) <= MaxSize /\ Len(output) < MaxWrites

Init ==
    /\ source \in Sources
    /\ lazyMode \in BOOLEAN
    /\ pc = "idle"
    /\ prog = <<>>
    /\ macros = EmptyEnv
    /\ output = <<>>
    /\ errlog = <<>>
    /\ reads = 0
    /\ tick = 0
    /\ last = NoStep
    /\ rt = NoRoundTrip
    /\ other = NoOther

\* run(source) up to the call of runEval: [pc, prog, errlog]
runStart(src) ==
    LET p == parseProgram(src)
    IN  IF p.err # NoErr
        THEN [pc |-> "failed", prog |-> <<>>, errlog |-> <<"Error parsing: " \o p.err>>]
        ELSE [pc |-> "running", prog |-> p.nodes, errlog |-> <<>>]

\* The click on Run when no run is in progress: the page is cleared, a new
\* interpreter is made and run(source) clears the macros and parses the source.
Run ==
    /\ pc \in {"idle", "done", "failed"}
    /\ \E s \in {runStart(source)} :
           /\ pc' = s.pc
           /\ prog' = s.prog
           /\ errlog' = s.errlog
    /\ macros' = EmptyEnv
    /\ output' = <<>>
    /\ reads' = 0
    /\ tick' = 0
    /\ last' = [NoStep EXCEPT !.kind = "run"]
    /\ UNCHANGED <<source, lazyMode, rt, other>>

\* what runEval and the catch of run do with the outcome r of step
Continue(kind, line, r) ==
    /\ output' = output \o r.out
    /\ macros' = r.macros
    /\ reads' = reads + r.reads
    /\ tick' = 1 - tick
    /\ last' = StepRecord(kind, line, r)
    /\ IF r.hang THEN pc' = "hung" /\ UNCHANGED <<prog, errlog>>
       ELSE IF r.err # NoErr
            THEN /\ pc' = "failed"
                 /\ errlog' = Append(errlog, "Error parsing: " \o r.err)
                 /\ UNCHANGED prog
       ELSE /\ pc' = IF r.changed THEN "running" ELSE "done"
            /\ prog' = r.nodes
            /\ UNCHANGED errlog
    /\ UNCHANGED <<source, lazyMode, rt, other>>

\* whether the next call of step awaits inputFn
AwaitsInput == step(prog, macros, lazyMode, "").reads > 0

\* one call of step by runEval that does not await input
Step ==
    /\ pc = "running"
    /\ WithinBounds
    /\ ~AwaitsInput
    /\ \E r \in {step(prog, macros, lazyMode, "")} : Continue("step", "", r)

\* a call of step reaches Input: requestInput returns a pending promise
RequestInput ==
    /\ pc = "running"
    /\ WithinBounds
    /\ AwaitsInput
    /\ reads < MaxLines
    /\ pc' = "awaiting"
    /\ UNCHANGED <<source, lazyMode, prog, macros, output, errlog, reads, tick, last, rt, other>>

\* the user submits a line: the promise resolves and the call of step ends
SubmitLine(line) ==
    /\ pc = "awaiting"
    /\ \E r \in {step(prog, macros, lazyMode, line)} : Continue("step", line, r)

\* a caller hands the sequence of a finished run to step once more
StepAgain ==
    /\ pc = "done"
    /\ last.kind = "step"
    /\ \E r \in {step(prog, macros, lazyMode, "")} : last' = StepRecord("again", "", r)
    /\ UNCHANGED <<source, lazyMode, pc, prog, macros, output, errlog, reads, tick, rt,
                   other>>

Next ==
    \/ Run
    \/ Step
    \/ RequestInput
    \/ \E line \in Lines : SubmitLine(line)
    \/ StepAgain

Spec == Init /\ [][Next]_vars

\* programs of tokens and macro definitions, and a function that ignores its
\* parameter applied to such programs
LoopSources ==
    {srcThen(p, m) : p \in {"", srcMacro("M", "M"), srcMacro("M", "y")},
                     m \in Texts({"M", "Input", "y"}, MaxSeq)
                              \cup {srcApply(srcFunc("x", "y"), a) : a \in {"M", "Input"}}}

LoopInit == Init /\ source \in LoopSources

\* runEval goes on calling step: a call that can be made is made, and a call
\* that reaches Input asks the host for a line
FairSpec == LoopInit /\ [][Next]_vars /\ WF_vars(Step) /\ WF_vars(RequestInput)

----------------------------------------------------------------------------
(* The round trip: parseProgram, nodesToCodeString, parseProgram *)

\* raw words written with escape sequences, and plain ones
EscapedWords == {"Po\\sop", "Po\\nop", "a\\\\b", "x", "M"}

RoundTripSources ==
    Texts(Keywords \cup {"x", "Po\\sop"}, MaxWords)
        \cup {srcFunc("x", b) : b \in Texts(EscapedWords, MaxSeq)}
        \cup {srcMacro("M", b) : b \in Texts(EscapedWords, MaxSeq)}
        \cup {srcApply(c, a) : c \in Texts(EscapedWords, MaxSeq),
                               a \in Texts(EscapedWords, MaxSeq)}
        \cup Examples

RoundTripInit ==
    /\ source \in RoundTripSources
    /\ lazyMode = TRUE
    /\ pc = "idle"
    /\ prog = <<>>
    /\ macros = EmptyEnv
    /\ output = <<>>
    /\ errlog = <<>>
    /\ reads = 0
    /\ tick = 0
    /\ last = NoStep
    /\ rt = NoRoundTrip
    /\ other = NoOther

ParseSource ==
    /\ rt.phase = "none"
    /\ rt' = [rt EXCEPT !.phase = "parsed", !.first = parseProgram(source)]
    /\ UNCHANGED <<source, lazyMode, pc, prog, macros, output, errlog, reads, tick, last,
                   other>>

Stringify ==
    /\ rt.phase = "parsed"
    /\ rt.first.err = NoErr
    /\ rt' = [rt EXCEPT !.phase = "text", !.code = nodesToCodeString(rt.first.nodes)]
    /\ UNCHANGED <<source, lazyMode, pc, prog, macros, output, errlog, reads, tick, last,
                   other>>

Reparse ==
    /\ rt.phase = "text"
    /\ rt' = [rt EXCEPT !.phase = "reparsed", !.second = parseProgram(rt.code)]
    /\ UNCHANGED <<source, lazyMode, pc, prog, macros, output, errlog, reads, tick, last,
                   other>>

RoundTripNext == ParseSource \/ Stringify \/ Reparse

RoundTripSpec == RoundTripInit /\ [][RoundTripNext]_vars

----------------------------------------------------------------------------
(* Claims *)

\* C1: for every source text that parseProgram accepts, parsing the source
\* rendering of the parsed nodes succeeds and gives a node sequence equal to the
\* first one, also when a token was written with an escape sequence.
C1_RoundTrip ==
    rt.phase = "reparsed" =>
        /\ rt.second.err = NoErr
        /\ rt.second.nodes = rt.first.nodes

\* a call of step by the driver was made and is the last thing that happened
Stepped == last.kind = "step"

\* a node that reduceFirst passes over under env: a literal, or a token that is
\* neither Input nor the name of a macro
Inert(env, n) ==
    \/ n.type = "Literal"
    \/ n.type = "Token" /\ n.value # "Input" /\ n.value \notin DOMAIN env

\* the index of the first node of nodes that is not inert, or 0
FirstActive(nodes, env) ==
    IF \A k \in 1..Len(nodes) : Inert(env, nodes[k]) THEN 0
    ELSE CHOOSE k \in 1..Len(nodes) :
             /\ ~Inert(env, nodes[k])
             /\ \A j \in 1..(k - 1) : Inert(env, nodes[j])

\* the first node of nodes that is not inert, as a sequence of 0 or 1 nodes
ActiveNode(nodes, env) ==
    LET k == FirstActive(nodes, env) IN IF k = 0 THEN <<>> ELSE <<nodes[k]>>

\* The MacroDef that step meets first in nodes, as a sequence of 0 or 1 nodes:
\* the first active node, or the first active argument of a first active
\* application whose callee is an inert token.
MetMacroDef(nodes, env) ==
    LET a == ActiveNode(nodes, env)
    IN  IF a = <<>> THEN <<>>
        ELSE IF a[1].type = "MacroDef" THEN a
        ELSE IF a[1].type = "Apply" /\ a[1].func.type = "Token" /\ Inert(env, a[1].func)
             THEN LET b == ActiveNode(a[1].args, env)
                  IN  IF b # <<>> /\ b[1].type = "MacroDef" THEN b ELSE <<>>
        ELSE <<>>

\* the last step met a MacroDef whose name the macro table already held
Redefining ==
    /\ Stepped
    /\ \E d \in {MetMacroDef(last.before, last.env)} :
           d # <<>> /\ d[1].name \in DOMAIN last.env

\* C2: when a step meets a MacroDef whose name is already in the macro table,
\* the step throws the macro redefinition error and the run ends failed with
\* that error logged, whether or not the new body equals the registered one;
\* the table is the one the step started with (the name keeps its first body)
\* and the program is not replaced by a new sequence.
C2_RedefinitionIsFatal ==
    Redefining =>
        LET d == MetMacroDef(last.before, last.env)[1]
        IN  /\ pc = "failed"
            /\ last.err = "Macro redefinition error: " \o d.name
            /\ errlog = <<"Error parsing: Macro redefinition error: " \o d.name>>
            /\ macros = last.env
            /\ prog = last.before
            /\ last.nodes = <<>>
            /\ last.out = <<>>

\* a run that failed on a second definition of a macro with the body it had
C2_Witness ==
    /\ Redefining
    /\ LET d == MetMacroDef(last.before, last.env)[1]
       IN  last.env[d.name] = d.body /\ d.body # <<>>
    /\ pc = "failed"

\* C3: when the first active node of the program is an application whose
\* callee is a token naming a macro whose registered body is not exactly one
\* node, the step fails and the run aborts.
C3_MacroCalleeIsFatal ==
    Stepped =>
        \A a \in {ActiveNode(last.before, last.env)} :
            ( /\ a # <<>>
              /\ a[1].type = "Apply"
              /\ a[1].func.type = "Token"
              /\ a[1].func.value \in DOMAIN last.env
              /\ Len(last.env[a[1].func.value]) # 1 )
            => pc = "failed"

\* the run goes on beyond what the model follows: the program or its output
\* outgrew the bounds, or one more line of input is awaited
Capped ==
    /\ pc = "running"
    /\ ~WithinBounds \/ (AwaitsInput /\ reads >= MaxLines)

\* C4: a run that is calling step stops calling it after finitely many calls
\* (it ends, fails, hangs inside a call or waits for input), unless it leaves
\* the bounds of the model.
C4_RunStops == (pc = "running") ~> (pc # "running" \/ Capped)

\* Token(p) occurs in nodes outside every Func whose parameter is p
RECURSIVE FreeIn(_, _)
FreeIn(p, nodes) ==
    \E k \in 1..Len(nodes) :
        LET n == nodes[k]
        IN  \/ n.type = "Token" /\ n.value = p
            \/ n.type = "Func" /\ n.param # p /\ FreeIn(p, n.body)
            \/ n.type = "MacroDef" /\ FreeIn(p, n.body)
            \/ n.type = "Apply" /\ (FreeIn(p, <<n.func>>) \/ FreeIn(p, n.args))

\* a Token naming a macro of env occurs in nodes, at any depth
RECURSIVE MentionsMacro(_, _)
MentionsMacro(nodes, env) ==
    \E k \in 1..Len(nodes) :
        LET n == nodes[k]
        IN  \/ n.type = "Token" /\ n.value \in DOMAIN env
            \/ n.type \in {"Func", "MacroDef"} /\ MentionsMacro(n.body, env)
            \/ n.type = "Apply" /\ (MentionsMacro(<<n.func>>, env) \/ MentionsMacro(n.args, env))

\* the last step was made under the lazy strategy on a program whose first
\* node applies a Func whose body has no free occurrence of its parameter
LazyIgnoring ==
    /\ Stepped
    /\ lazyMode
    /\ last.before # <<>>
    /\ last.before[1].type = "Apply"
    /\ last.before[1].func.type = "Func"
    /\ ~FreeIn(last.before[1].func.param, last.before[1].func.body)

\* that step put the body in place of the application and did nothing else
BodyReplacedApplication ==
    /\ last.err = NoErr /\ ~last.hang
    /\ last.changed
    /\ pc = "running"
    /\ prog = last.before[1].func.body \o Tail(last.before)
    /\ last.out = <<>>
    /\ last.reads = 0
    /\ macros = last.env
    /\ errlog = <<>>

\* C5 as stated: under the lazy strategy the application of a Func whose body
\* has no free occurrence of its parameter is replaced by the body in one step,
\* with no write, no read, no macro registered and no error.
C5_UnusedArgsAsStated == LazyIgnoring => BodyReplacedApplication

\* C5: under the lazy strategy, when the first node of the program applies a
\* Func whose body has no free occurrence of its parameter and no token naming
\* a registered macro, the step replaces the application by the body, the
\* argument list is dropped unevaluated (no write, no read, no macro registered,
\* no error) and the run goes on with the body followed by the rest.
C5_UnusedArgsDropped ==
    (LazyIgnoring /\ ~MentionsMacro(last.before[1].func.body, last.env))
        => BodyReplacedApplication

\* such a step, whose dropped arguments held a node that step would reduce
C5_Witness ==
    /\ LazyIgnoring
    /\ ~MentionsMacro(last.before[1].func.body, last.env)
    /\ ActiveNode(last.before[1].args, last.env) # <<>>
    /\ last.env # EmptyEnv
    /\ BodyReplacedApplication

\* the applications of Print that occur in nodes, at any depth
RECURSIVE PrintApps(_)
PrintApps(nodes) ==
    UNION { LET n == nodes[k]
            IN  IF n.type \in {"Func", "MacroDef"} THEN PrintApps(n.body)
                ELSE IF n.type = "Apply"
                     THEN (IF n.func = Token("Print") THEN {n} ELSE {})
                              \cup PrintApps(<<n.func>>) \cup PrintApps(n.args)
                ELSE {}
          : k \in 1..Len(nodes) }

\* n applies Print to arguments that are all printable under env
CompletePrint(n, env) ==
    /\ n.type = "Apply"
    /\ n.func = Token("Print")
    /\ \A k \in 1..Len(n.args) : Inert(env, n.args[k])

\* the text of the printable nodes args: the name of a token, the text between
\* Po and op of a literal, one after the other
RECURSIVE Rendering(_)
Rendering(args) ==
    IF args = <<>> THEN ""
    ELSE LET n == Head(args)
             text == IF n.type = "Token" THEN n.value
                     ELSE IF Len(n.value) <= 4 THEN ""
                     ELSE SubSeq(n.value, 3, Len(n.value) - 2)
         IN  text \o Rendering(Tail(args))

ScenarioA == "pooping Print poopy PoHiop qooq"

\* C6: a step writes at most once; when it writes, it completes an application
\* of Print to printable arguments of the program and writes the renderings of
\* those arguments one after the other with nothing between them; a step whose
\* first active node is such an application writes exactly that text.  The
\* program of scenario A writes Hi once and is in normal form after that step.
C6_OneWritePerPrint ==
    /\ Stepped =>
         /\ Len(last.out) <= 1
         /\ last.out # <<>> =>
                \E a \in PrintApps(last.before) :
                    CompletePrint(a, last.env) /\ last.out = <<Rendering(a.args)>>
         /\ \A a \in {ActiveNode(last.before, last.env)} :
                (a # <<>> /\ CompletePrint(a[1], last.env))
                    => last.out = <<Rendering(a[1].args)>>
    /\ (source = ScenarioA /\ pc # "idle") =>
         \/ pc = "running" /\ prog = <<Apply(Token("Print"), <<Literal("PoHiop")>>)>>
                           /\ output = <<>>
         \/ pc \in {"running", "done"} /\ prog = <<Literal("PoHiop")>>
                                       /\ output = <<"Hi">>

\* a step that completed a Print of two literals
C6_Witness ==
    /\ Stepped
    /\ ActiveNode(last.before, last.env)
           = <<Apply(Token("Print"), <<Literal("PoHiop"), Literal("PoHiop")>>)>>
    /\ last.out = <<"HiHi">>

\* C7: the step that completes an application of Print puts exactly the
\* argument nodes in its place: at the head of the program they are spliced
\* before the rest, in callee position they become the callee; all else, and
\* the macro table, is unchanged and the step reports changed.
C7_PrintIsIdentity ==
    (Stepped /\ last.before # <<>>) =>
        LET n == last.before[1]
            rest == Tail(last.before)
        IN  /\ CompletePrint(n, last.env) =>
                /\ last.changed
                /\ prog = n.args \o rest
                /\ macros = last.env
            /\ (n.type = "Apply" /\ CompletePrint(n.func, last.env)) =>
                /\ last.changed
                /\ prog # <<>>
                /\ prog[1].type = "Apply"
                /\ <<prog[1].func>> = n.func.args
                /\ prog[1].args = n.args
                /\ Tail(prog) = rest
                /\ macros = last.env

\* the last call of step returned and reported no change
Unchanged == last.err = NoErr /\ ~last.hang /\ ~last.changed

\* the last call of step wrote nothing, read nothing and left the macros alone
NoEffect == last.out = <<>> /\ last.reads = 0 /\ last.macros = last.env

\* C8: a call of step that reports no change writes nothing, reads nothing and
\* leaves the macro table alone; a further call on the sequence it returned,
\* under the same macro table, reports no change either, returns an equal
\* sequence and has no effect.
C8_NormalFormIsIdempotent ==
    /\ (Stepped /\ Unchanged) => NoEffect
    /\ last.kind = "again" =>
         /\ Unchanged
         /\ last.nodes = last.before
         /\ last.before = prog
         /\ NoEffect

\* step was called again on a normal form that holds a stuck application,
\* under a macro table that is not empty
C8_Witness ==
    /\ last.kind = "again"
    /\ last.env # EmptyEnv
    /\ \E k \in 1..Len(last.before) : last.before[k].type = "Apply"
    /\ Unchanged

\* the MacroDef nodes that occur in nodes, at any depth
RECURSIVE DefsIn(_)
DefsIn(nodes) ==
    UNION { LET n == nodes[k]
            IN  IF n.type = "MacroDef" THEN {n} \cup DefsIn(n.body)
                ELSE IF n.type = "Func" THEN DefsIn(n.body)
                ELSE IF n.type = "Apply" THEN DefsIn(<<n.func>>) \cup DefsIn(n.args)
                ELSE {}
          : k \in 1..Len(nodes) }

\* what a transition may do to the macro table
MacroTableStep ==
    /\ last'.kind = "run" => macros' = EmptyEnv
    /\ last'.kind # "run" =>
         /\ \A n \in DOMAIN macros : n \in DOMAIN macros' /\ macros'[n] = macros[n]
         /\ Cardinality(DOMAIN macros' \ DOMAIN macros) <= 1
         /\ \A n \in DOMAIN macros' \ DOMAIN macros :
                MacroDef(n, macros'[n]) \in DefsIn(prog)

\* C9: the macro table is empty when a run starts; within a run every entry
\* stays, with the same body, and a step adds at most one entry, which is the
\* name and body of a MacroDef node of the program it was given.
C9_MacroTableOnlyGrows == [][MacroTableStep]_vars

\* a run that registered two macros and went on stepping
C9_Witness ==
    /\ Stepped
    /\ Cardinality(DOMAIN macros) = 2
    /\ last.env = macros

\* the run failed on a parse error: of the source, or of a line read for Input
ParseFailure ==
    /\ pc = "failed"
    /\ \/ last.kind = "run"
       \/ Stepped /\ last.reads > 0 /\ last.err = parseProgram(last.line).err

\* C10 as stated: when a run fails with a parse error, of the source text or of
\* a line supplied for Input, nothing was written and no macro was registered.
C10_ParseErrorBeforeReductionAsStated ==
    ParseFailure => output = <<>> /\ macros = EmptyEnv

\* C10: a source text that does not parse fails the run before any step:
\* nothing is written, no macro is registered, one error is logged.  A line
\* supplied for Input that does not parse fails the run in the step that read
\* it: that step writes nothing and leaves the macro table and the program as
\* they were, and the parse error is the one logged.
C10_ParseErrorAborts ==
    /\ (source \in Malformed /\ pc # "idle") =>
         pc = "failed" /\ last.kind = "run"
    /\ (pc = "failed" /\ last.kind = "run") =>
         /\ output = <<>>
         /\ macros = EmptyEnv
         /\ prog = <<>>
         /\ errlog = <<"Error parsing: " \o parseProgram(source).err>>
    /\ (Stepped /\ last.reads > 0 /\ parseProgram(last.line).err # NoErr) =>
         /\ pc = "failed"
         /\ last.err = parseProgram(last.line).err
         /\ errlog = <<"Error parsing: " \o last.err>>
         /\ last.out = <<>>
         /\ macros = last.env
         /\ prog = last.before

\* a run that wrote, then read a line that does not parse, and failed
C10_Witness ==
    /\ Stepped
    /\ last.reads > 0
    /\ parseProgram(last.line).err # NoErr
    /\ pc = "failed"
    /\ output # <<>>

\* the first active node of nodes is an application whose callee is a token
\* naming a macro whose registered body is not exactly one node
BadMacroCallee(nodes, env) ==
    \E a \in {ActiveNode(nodes, env)} :
        /\ a # <<>>
        /\ a[1].type = "Apply"
        /\ a[1].func.type = "Token"
        /\ a[1].func.value \in DOMAIN env
        /\ Len(env[a[1].func.value]) # 1

\* the next call of step meets a MacroDef whose name the macro table holds
MeetsRedefinition(nodes, env) ==
    \E d \in {MetMacroDef(nodes, env)} : d # <<>> /\ d[1].name \in DOMAIN env

\* what a transition of the run does about fatal errors
FatalErrorStep ==
    /\ ( /\ pc = "running"
         /\ last'.kind = "step"
         /\ BadMacroCallee(prog, macros) \/ MeetsRedefinition(prog, macros) )
       => pc' = "failed"
    /\ (pc # "failed" /\ pc' = "failed") =>
         /\ Len(errlog') = 1
         /\ last'.kind = "step" => output' = output /\ last'.out = <<>>
    /\ pc = "failed" => last'.kind = "run"

\* C11: a fatal error (a parse error, a macro redefinition, a macro callee
\* whose body is not one node) ends the run: the step that meets it fails the
\* run, the error is logged once, the failing step writes nothing and what was
\* written stays, and after the failure nothing happens but the start of a new
\* run.
C11_FatalErrorEndsRun == [][FatalErrorStep]_vars

RECURSIVE SpliceAny(_, _), SpliceNode(_, _)
\* the sequences got from nodes by putting the nodes new in the place of one
\* Input token of nodes, at any depth
SpliceAny(nodes, new) ==
    IF nodes = <<>> THEN {}
    ELSE LET n == Head(nodes)
             rest == Tail(nodes)
         IN  (IF n.type = "Token" /\ n.value = "Input" THEN {new \o rest} ELSE {})
                 \cup {<<m>> \o rest : m \in SpliceNode(n, new)}
                 \cup {<<n>> \o r : r \in SpliceAny(rest, new)}

\* the nodes got from n by putting new in the place of one Input token inside
\* n; a callee is one node, so an Input that is a callee takes one node only
SpliceNode(n, new) ==
    CASE n.type = "Func" -> {Func(n.param, b) : b \in SpliceAny(n.body, new)}
      [] n.type = "MacroDef" -> {MacroDef(n.name, b) : b \in SpliceAny(n.body, new)}
      [] n.type = "Apply" ->
            {Apply(f, n.args) :
                f \in (IF n.func.type = "Token" /\ n.func.value = "Input" /\ Len(new) = 1
                       THEN {new[1]} ELSE {}) \cup SpliceNode(n.func, new)}
                \cup {Apply(n.func, a) : a \in SpliceAny(n.args, new)}
      [] OTHER -> {}

\* the last step read a line for an Input token, and the line parses
ReducedInput ==
    /\ Stepped
    /\ last.reads > 0
    /\ parseProgram(last.line).err = NoErr

\* C12: a step that reduces an Input token reads one line, and the program it
\* returns is the one it was given with that Input token replaced by exactly
\* the nodes parseProgram gives for the line (none, one or several), all other
\* nodes being as they were; the macro table is unchanged, nothing is written
\* and the step reports changed.
C12_InputIsSpliced ==
    ReducedInput =>
        /\ last.reads = 1
        /\ last.err = NoErr
        /\ last.changed
        /\ last.macros = last.env
        /\ last.out = <<>>
        /\ last.nodes \in SpliceAny(last.before, parseProgram(last.line).nodes)

----------------------------------------------------------------------------
(* Two calls of run on one PoopInterpreter: the second is made while the    *)
(* first is suspended in inputFn.  Both use this.macros, outputFn and logFn *)
(* of the instance.                                                         *)

\* sources of the first call: a macro definition, then Input at the head
SharedFirst ==
    {srcThen(srcMacro("M", b), t) : b \in {"y", "PoHiop", srcFunc("x", "x")},
                                    t \in {"Input", "Input M", "Input " \o srcApply("Print", "M")}}

\* sources of the second call
SharedSecond ==
    {"y", "M", srcMacro("M", "PoHiop"), srcMacro("N", "y"), srcApply("Print", "M"),
     srcThen(srcMacro("N", "y"), "N"), "poop"}

\* the state of the page and the interpreter before a run of a source in S
StartOf(S) ==
    /\ source \in S
    /\ lazyMode \in BOOLEAN
    /\ pc = "idle"
    /\ prog = <<>>
    /\ macros = EmptyEnv
    /\ output = <<>>
    /\ errlog = <<>>
    /\ reads = 0
    /\ tick = 0
    /\ last = NoStep
    /\ rt = NoRoundTrip
    /\ other = NoOther

SharedInit == StartOf(SharedFirst)

\* the first call of run
FirstRun == pc = "idle" /\ Run

\* a call of step of the first run; the first run resumes once the second,
\* which was started while the first awaited a line, ran as far as it can
FirstStep == other.pc # "running" /\ Step

FirstRequestInput == other.pc # "running" /\ RequestInput

FirstSubmitLine(line) == other.pc # "running" /\ SubmitLine(line)

\* run(src) is called again on the instance while the first call awaits a line
SecondRun(src) ==
    /\ pc = "awaiting"
    /\ other.pc = "idle"
    /\ macros' = EmptyEnv
    /\ \E s \in {runStart(src)} :
           /\ other' = [pc |-> s.pc, prog |-> s.prog]
           /\ errlog' = errlog \o s.errlog
    /\ UNCHANGED <<source, lazyMode, pc, prog, output, reads, tick, last, rt>>

\* one call of step by the runEval of the second call
SecondStep ==
    /\ other.pc = "running"
    /\ Size(other.prog) <= MaxSize
    /\ Len(output) < MaxWrites
    /\ \E r \in {step(other.prog, macros, lazyMode, "")} :
           /\ r.reads = 0
           /\ output' = output \o r.out
           /\ macros' = r.macros
           /\ IF r.hang THEN other' = [other EXCEPT !.pc = "hung"] /\ UNCHANGED errlog
              ELSE IF r.err # NoErr
                   THEN /\ other' = [other EXCEPT !.pc = "failed"]
                        /\ errlog' = Append(errlog, "Error parsing: " \o r.err)
              ELSE /\ other' = [pc |-> IF r.changed THEN "running" ELSE "done",
                                prog |-> r.nodes]
                   /\ UNCHANGED errlog
    /\ UNCHANGED <<source, lazyMode, pc, prog, reads, tick, last, rt>>

SharedNext ==
    \/ FirstRun
    \/ FirstStep
    \/ FirstRequestInput
    \/ \E line \in Lines : FirstSubmitLine(line)
    \/ \E src \in SharedSecond : SecondRun(src)
    \/ SecondStep

SharedSpec == SharedInit /\ [][SharedNext]_vars

\* a transition of the second run leaves the macro table of the first run,
\* which the first run reads when it resumes, as it was
SecondKeepsFirstMacros == other' # other => macros' = macros

\* C13: runs that overlap never share a macro table: when run is called a
\* second time, on the same PoopInterpreter, while the first call awaits a
\* line for Input, starting the second does not clear the macros of the first
\* and no definition of the second shows in the table of the first.
C13_RunsKeepTheirMacros == [][SecondKeepsFirstMacros]_vars

----------------------------------------------------------------------------
(* Two runs of one source, one after the other, on one PoopInterpreter *)

\* source texts in which the word Input does not occur
WithoutInput ==
    {srcThen(p, srcApply(c, a)) :
        p \in Preludes, c \in CalleeTexts \ {"Input"}, a \in {"y", "M", "PoHiop"}}
        \cup {srcThen(p, srcApply(c, a)) :
                 p \in {"", srcMacro("M", "y")}, c \in CalleeTexts \ {"Input"},
                 a \in {srcApply("Print", "PoHiop"), srcMacro("M", "y")}}
        \cup {srcThen(srcApply("Print", "PoHiop"), m) : m \in Malformed}
        \cup Examples \cup Malformed

\* this.macros.clear(), were it to leave the table as it is
keepMacros(env) == env

\* this.macros.clear() at the start of run
clearMacros(env) == EmptyEnv

AgainInit == StartOf(WithoutInput)

\* the first call of run(source)
RunOnce == pc = "idle" /\ Run

\* a call of step by runEval
StepOn == Step

\* run(source) is called again when the first call has ended; what the first
\* call wrote, logged and ended with is kept in other
RunAgain ==
    /\ pc \in {"done", "failed", "hung"}
    /\ other.pc = "idle"
    /\ other' = [pc |-> pc, prog |-> prog, output |-> output, errlog |-> errlog]
    /\ macros' = clearMacros(macros)
    /\ \E s \in {runStart(source)} :
           /\ pc' = s.pc
           /\ prog' = s.prog
           /\ errlog' = s.errlog
    /\ output' = <<>>
    /\ reads' = 0
    /\ tick' = 0
    /\ last' = [NoStep EXCEPT !.kind = "run"]
    /\ UNCHANGED <<source, lazyMode, rt>>

AgainNext == RunOnce \/ StepOn \/ RunAgain

AgainSpec == AgainInit /\ [][AgainNext]_vars

\* s is the beginning of t
IsPrefix(s, t) == Len(s) <= Len(t) /\ s = SubSeq(t, 1, Len(s))

\* C14: for a source in which Input does not occur, a second run under the
\* same strategy writes the same texts in the same order as the first and ends
\* as the first did: with the same normal form, or failed with the same error
\* logged.
C14_RepeatedRunsAgree ==
    other.pc # "idle" =>
        /\ IsPrefix(output, other.output)
        /\ pc \in {"done", "failed", "hung"} =>
              /\ pc = other.pc
              /\ output = other.output
              /\ prog = other.prog
              /\ errlog = other.errlog

\* a second run that registered a macro, wrote and reached the normal form of
\* the first
C14_Witness ==
    /\ other.pc = "done"
    /\ pc = "done"
    /\ output # <<>>
    /\ macros # EmptyEnv

----------------------------------------------------------------------------
(* A run with logging options next to the run without: the second follows   *)
(* the first step by step, on its own PoopInterpreter, with the same source, *)
(* strategy and input lines.                                                *)

\* the options of the constructor that concern logging
Options ==
    [debugMode : BOOLEAN, traceMode : BOOLEAN, printTotalSteps : BOOLEAN,
     showStepNo : BOOLEAN]

\* the line logFn receives: its prefix ([Step n] as n, else 0), its kind and
\* what it is about
LogLine(o, count, kind, about) ==
    [stepNo |-> IF o.showStepNo THEN count + 1 ELSE 0, kind |-> kind, about |-> about]

\* logDebug(msg)
logDebug(o, count, msg) ==
    IF o.debugMode THEN <<LogLine(o, count, "debug", msg)>> ELSE <<>>

\* logTrace(nodes)
logTrace(o, count, nodes) ==
    IF o.traceMode THEN <<LogLine(o, count, "trace", nodes)>> ELSE <<>>

\* the lines run logs before it calls runEval
startLog(o, lazy) ==
    IF o.debugMode
    THEN <<"[poop.js] Started interpreter v1.4.1">>
             \o (IF lazy THEN <<>>
                 ELSE <<"[poop.js] WARNING: Legacy (Strict) evaluation is deprecated. Default is Lazy.">>)
             \o (IF o.traceMode THEN <<"[poop.js] Trace Mode Enabled (Full AST Dump).">>
                 ELSE <<>>)
    ELSE <<>>

\* the lines the call of step with outcome r under env logs about the line it
\* read, the macro it defined and the text it wrote
stepLog(o, count, env, r) ==
    (IF r.reads > 0 THEN logDebug(o, count, "Input requested...") ELSE <<>>)
        \o (IF r.err = NoErr /\ DOMAIN r.macros # DOMAIN env
            THEN logDebug(o, count, "Defined Macro") ELSE <<>>)
        \o (IF r.out # <<>> THEN logDebug(o, count, "Print Output") ELSE <<>>)

\* the lines runEval logs when step reports no change
endLog(o, count) ==
    logDebug(o, count, "Terminated.")
        \o (IF o.printTotalSteps /\ o.debugMode
            THEN <<[stepNo |-> 0, kind |-> "total", about |-> count]>> ELSE <<>>)

\* stepCount after a step that reported a change
countStep(o, count) == IF o.printTotalSteps \/ o.showStepNo THEN count + 1 ELSE count

\* step, were Print to write only when debugMode is set
stepUnderSilent(o, nodes, env, lazy, line) ==
    The({ IF o.debugMode THEN r ELSE [r EXCEPT !.out = <<>>]
          : r \in {step(nodes, env, lazy, line)} })

\* step on an interpreter with options o: reduceFirst reads the options only
\* to decide what it logs
stepUnder(o, nodes, env, lazy, line) == step(nodes, env, lazy, line)

FlagSources ==
    { "pooping Print poopy PoHiop qooq",
      "poop M is y qooq M Input M",
      "poop M is y qooq poop M is y qooq",
      "pooping poop x poops x M qooq poopy Input qooq",
      "poop M is poop x poops x qooq qooq pooping Print poopy pooping M poopy PoHiop qooq qooq",
      "Input pooping Print poopy Input qooq",
      "pooping M y qooq" }

FlagInit == StartOf(FlagSources)

\* run(source) on the interpreter without logging
PlainRun == pc = "idle" /\ Run

\* run(source) on an interpreter with options o
FlagRun(o) ==
    /\ pc # "idle"
    /\ other.pc = "idle"
    /\ \E s \in {runStart(source)} :
           other' = [opts |-> o, pc |-> s.pc, prog |-> s.prog, macros |-> EmptyEnv,
                     output |-> <<>>, stepCount |-> 0, tick |-> 0,
                     log |-> IF s.pc = "failed" THEN s.errlog
                             ELSE startLog(o, lazyMode)]
    /\ UNCHANGED <<source, lazyMode, pc, prog, macros, output, errlog, reads, tick, last, rt>>

\* the run without logging makes its next call of step when the other run
\* has made as many
PlainStep == other.pc # "idle" /\ other.tick = tick /\ Step

PlainRequestInput == other.pc # "idle" /\ other.tick = tick /\ RequestInput

PlainSubmitLine(line) == other.pc # "idle" /\ other.tick = tick /\ SubmitLine(line)

\* the call of runEval of the run with options that follows the last call of
\* step of the run without; it is given the line that call was given
FlagStep ==
    /\ other.pc = "running"
    /\ other.tick # tick
    /\ \E r \in {stepUnder(other.opts, other.prog, other.macros, lazyMode, last.line)} :
         \E o \in {other.opts} :
         \E before \in {other.log \o logTrace(o, other.stepCount, other.prog)
                            \o stepLog(o, other.stepCount, other.macros, r)} :
           other' =
             IF r.hang THEN [other EXCEPT !.pc = "hung", !.tick = tick]
             ELSE IF r.err # NoErr
                  THEN [other EXCEPT !.pc = "failed", !.tick = tick,
                                     !.log = Append(before, "Error parsing: " \o r.err)]
             ELSE IF r.changed
                  THEN [other EXCEPT !.pc = "running", !.tick = tick, !.prog = r.nodes,
                                     !.macros = r.macros,
                                     !.output = other.output \o r.out,
                                     !.stepCount = countStep(o, other.stepCount),
                                     !.log = before]
             ELSE [other EXCEPT !.pc = "done", !.tick = tick, !.prog = r.nodes,
                                !.macros = r.macros,
                                !.output = other.output \o r.out,
                                !.log = before \o endLog(o, other.stepCount)]
    /\ UNCHANGED <<source, lazyMode, pc, prog, macros, output, errlog, reads, tick, last, rt>>

FlagNext ==
    \/ PlainRun
    \/ \E o \in Options : FlagRun(o)
    \/ PlainStep
    \/ PlainRequestInput
    \/ \E line \in Lines : PlainSubmitLine(line)
    \/ FlagStep

FlagSpec == FlagInit /\ [][FlagNext]_vars

\* both runs have made the same number of calls of step
InStep == other.pc # "idle" /\ other.tick = tick

----------------------------------------------------------------------------
(* The Haskell interpreter poop.hs, of which poop.js is a port.  Its parser, *)
(* substitute, expandMacrosDeep, isReduced and nodesToString are the         *)
(* functions of the same names of poop.js (nodesToString is                  *)
(* nodesToOutputString); hsReduceFirst is its reduceFirst.                   *)

\* expandInput: a line that does not parse is an error of its own
hsInput(rest, env, line) ==
    The({ IF p.err # NoErr
          THEN [Thrown("Input parsing error: " \o p.err, env) EXCEPT !.reads = 1]
          ELSE [Result(p.nodes \o rest, TRUE, env) EXCEPT !.reads = 1]
          : p \in {parseProgram(line)} })

\* Print of arguments that are all reduced: putStr (nodesToString args)
hsPrint(args, rest, env) ==
    [Result(args \o rest, TRUE, env) EXCEPT !.out = <<nodesToOutputString(args)>>]

RECURSIVE hsReduceFirst(_, _, _, _), hsRest(_, _, _, _, _), hsLoneFunc(_, _, _, _, _),
          hsApply(_, _, _, _, _), hsAfterCallee(_, _, _, _, _, _),
          hsLegacy(_, _, _, _, _, _), hsArgsThenRest(_, _, _, _, _, _)
hsReduceFirst(nodes, env, lazy, line) ==
    IF Len(nodes) = 0 THEN Result(<<>>, FALSE, env)
    ELSE LET n == Head(nodes)
             rest == Tail(nodes)
         IN  IF n.type = "Token" /\ n.value = "Input" THEN hsInput(rest, env, line)
             ELSE IF n.type = "MacroDef" THEN reduceMacroDef(n, rest, env)
             ELSE IF n.type = "Token"
                  THEN IF has(env, n.value) THEN Result(env[n.value] \o rest, TRUE, env)
                       ELSE hsRest(n, rest, env, lazy, line)
             ELSE IF n.type = "Apply" THEN hsApply(n, rest, env, lazy, line)
             ELSE IF n.type = "Func" THEN hsLoneFunc(n, rest, env, lazy, line)
             ELSE hsRest(n, rest, env, lazy, line)

\* (newRest, changed) <- reduceFirst rest; return (n : newRest, changed)
hsRest(n, rest, env, lazy, line) ==
    The({ IF Bad(r) THEN r ELSE Return(r, <<n>> \o r.nodes, r.changed)
          : r \in {hsReduceFirst(rest, env, lazy, line)} })

\* PRIORITY LOW: Function Definitions (Macro expansion only)
hsLoneFunc(n, rest, env, lazy, line) ==
    The({ IF e.hang THEN Hung(env)
          ELSE IF e.err # NoErr THEN Thrown(e.err, env)
          ELSE IF e.changed THEN Result(<<Func(n.param, e.nodes)>> \o rest, TRUE, env)
          ELSE hsRest(n, rest, env, lazy, line)
          : e \in {expandMacrosDeep(n.body, env)} })

\* PRIORITY 4: Function Application.  4a. Reduce the function head first
hsApply(n, rest, env, lazy, line) ==
    The({ hsAfterCallee(n.func, n.args, rest, f, lazy, line)
          : f \in {hsReduceFirst(<<n.func>>, env, lazy, line)} })

hsAfterCallee(func, args, rest, f, lazy, line) ==
    IF Bad(f) THEN f
    ELSE IF f.changed THEN Return(f, <<Apply(calleeOf(f.nodes), args)>> \o rest, TRUE)
    ELSE IF func.type = "Func"
         THEN IF lazy THEN After(f, betaReduce(func, args, rest, f.macros))
              ELSE hsLegacy(func, args, rest, f, lazy, line)
    ELSE IF func.type = "Token"
         THEN IF func.value = "Print"
              THEN IF \A k \in 1..Len(args) : isReduced(f.macros, args[k])
                   THEN After(f, hsPrint(args, rest, f.macros))
                   ELSE hsArgsThenRest(Token("Print"), args, rest, f, lazy, line)
              ELSE IF has(f.macros, func.value)
                   THEN After(f, reduceMacroCallee(func, args, rest, f.macros))
              ELSE hsArgsThenRest(func, args, rest, f, lazy, line)
    ELSE IF func.type = "Apply"
         THEN The({ IF Bad(inner) THEN inner
                    ELSE IF Len(inner.nodes) # 1
                         THEN After(inner, Thrown("Pattern match failure in do expression",
                                                  inner.macros))
                    ELSE IF inner.changed
                         THEN Return(inner, <<Apply(inner.nodes[1], args)>> \o rest, TRUE)
                    ELSE hsArgsThenRest(func, args, rest, inner, lazy, line)
                    : inner \in {After(f, hsReduceFirst(<<Apply(func.func, func.args)>>,
                                                        f.macros, lazy, line))} })
    ELSE hsArgsThenRest(func, args, rest, f, lazy, line)

\* [STRATEGY: ORIGINAL]
hsLegacy(func, args, rest, f, lazy, line) ==
    The({ IF e.hang THEN After(f, Hung(f.macros))
          ELSE IF e.err # NoErr THEN After(f, Thrown(e.err, f.macros))
          ELSE IF e.changed
               THEN Return(f, <<Apply(Func(func.param, e.nodes), args)>> \o rest, TRUE)
          ELSE IF someContainsPrint(func.body) = "true"
               THEN After(f, betaReduce(func, args, rest, f.macros))
          ELSE The({ IF Bad(a) THEN a
                     ELSE IF a.changed
                          THEN Return(a, <<Apply(func, a.nodes)>> \o rest, TRUE)
                     ELSE After(a, betaReduce(func, args, rest, a.macros))
                     : a \in {After(f, hsReduceFirst(args, f.macros, lazy, line))} })
          : e \in {expandMacrosDeep(func.body, f.macros)} })

\* reduce the arguments, else the nodes after the application
hsArgsThenRest(c, args, rest, before, lazy, line) ==
    The({ IF Bad(a) THEN a
          ELSE IF a.changed THEN Return(a, <<Apply(c, a.nodes)>> \o rest, TRUE)
          ELSE The({ IF Bad(r) THEN r
                     ELSE Return(r, <<Apply(c, args)>> \o r.nodes, r.changed)
                     : r \in {After(a, hsReduceFirst(rest, a.macros, lazy, line))} })
          : a \in {After(before, hsReduceFirst(args, before.macros, lazy, line))} })

\* step of poop.hs
hsStep(nodes, env, lazy, line) == hsReduceFirst(nodes, env, lazy, line)

\* programs both interpreters parse: applications of Print, of a function
\* and of a macro, macro definitions and Input
PortSources ==
    {srcThen(p, srcApply(c, a)) :
        p \in {"", srcMacro("M", "y")},
        c \in {"Print", "M", srcFunc("x", "x"), srcFunc("x", "y"),
               srcFunc("x", srcApply("Print", "x"))},
        a \in {"PoHiop", "y PoHiop", "M", "Input", srcFunc("x", "x"), srcFunc("x", "M"),
               srcApply("Print", "PoHiop")}}
        \cup {srcThen(srcMacro("M", srcFunc("x", "x")), srcApply(c, a)) :
                 c \in {"Print", "M"}, a \in {"PoHiop", "y PoHiop", "M", "Input"}}
        \cup {srcThen(p, m) :
                 p \in {"", srcMacro("M", "y"), srcMacro("M", srcFunc("x", "x"))},
                 m \in {"M", "Input M", srcFunc("x", "M")}}

PortInit == StartOf(PortSources)

\* poop.js is given the source
JsRun == pc = "idle" /\ Run

\* main of poop.hs is given the same source
HsRun ==
    /\ pc # "idle"
    /\ other.pc = "idle"
    /\ \E p \in {parseProgram(source)} :
           other' = IF p.err # NoErr
                    THEN [pc |-> "failed", prog |-> <<>>, macros |-> EmptyEnv,
                          output |-> <<"Error parsing: " \o p.err \o "\n">>, tick |-> 0]
                    ELSE [pc |-> "running", prog |-> p.nodes, macros |-> EmptyEnv,
                          output |-> <<>>, tick |-> 0]
    /\ UNCHANGED <<source, lazyMode, pc, prog, macros, output, errlog, reads, tick, last, rt>>

\* poop.js makes its next call of step when poop.hs has made as many
JsStep == other.pc # "idle" /\ other.tick = tick /\ Step

JsRequestInput == other.pc # "idle" /\ other.tick = tick /\ RequestInput

JsSubmitLine(line) == other.pc # "idle" /\ other.tick = tick /\ SubmitLine(line)

\* runEval of poop.hs calls step; getLine gives the line poop.js was given
HsStep ==
    /\ other.pc = "running"
    /\ other.tick # tick
    /\ \E r \in {hsStep(other.prog, other.macros, lazyMode, last.line)} :
           other' =
             IF r.hang THEN [other EXCEPT !.pc = "hung", !.tick = tick]
             ELSE IF r.err # NoErr THEN [other EXCEPT !.pc = "failed", !.tick = tick]
             ELSE [other EXCEPT !.pc = IF r.changed THEN "running" ELSE "done",
                                !.tick = tick, !.prog = r.nodes, !.macros = r.macros,
                                !.output = other.output \o r.out]
    /\ UNCHANGED <<source, lazyMode, pc, prog, macros, output, errlog, reads, tick, last, rt>>

PortNext ==
    \/ JsRun
    \/ HsRun
    \/ JsStep
    \/ JsRequestInput
    \/ \E line \in Lines : JsSubmitLine(line)
    \/ HsStep

PortSpec == PortInit /\ [][PortNext]_vars

\* C16: poop.js is a faithful port of poop.hs: given the same program, the
\* same strategy and the same input lines, after each step both have written
\* the same texts in the same order, hold the same program and the same macro
\* table, and stand at the same place (running, done or failed), also when
\* the argument of a Print application is a Func with a reduced body.
C16_PortIsFaithful ==
    InStep =>
        /\ other.output = output
        /\ other.prog = prog
        /\ other.macros = macros
        /\ other.pc = (IF pc = "awaiting" THEN "running" ELSE pc)

----------------------------------------------------------------------------
(* End-to-end examples *)

\* scenario B: the identity function, registered as a macro, applied inside
\* the argument of Print
ScenarioB ==
    "poop Id is poop x poops x qooq qooq pooping Print poopy pooping Id poopy PoYoop qooq qooq"

\* the concatenation of everything passed to outputFn during the run
Written == joinWith(output, "")

\* C17: the run of scenario B never fails, writes at most once, and ends in
\* normal form, the literal PoYoop, having written exactly Yo in one call of
\* outputFn, with nothing logged as an error; this under either strategy.
C17_ScenarioBWritesYo ==
    source = ScenarioB =>
        /\ pc \notin {"failed", "hung"}
        /\ errlog = <<>>
        /\ output \in {<<>>, <<"Yo">>}
        /\ pc = "done" => /\ output = <<"Yo">>
                          /\ Written = "Yo"
                          /\ prog = <<Literal("PoYoop")>>

\* the run of scenario B has ended
C17_Witness ==
    /\ source = ScenarioB
    /\ pc = "done"
    /\ Written = "Yo"
    /\ last.kind = "step"

\* the example of the README, on one line and without its comment
ReadmeExample ==
    "poop Greet is poop name poops Hello Poop name qooq qooq pooping Print poopy pooping Greet poopy World qooq qooq"

\* C18: the run of the README example ends in normal form having written
\* exactly Hello World: the literal Poop of four characters between Hello and
\* World is written as one space.
C18_ReadmeWritesHelloWorld ==
    (source = ReadmeExample /\ pc = "done") => Written = "Hello World"

----------------------------------------------------------------------------
(* Print of one word: what the lexer makes of the word and how it is written *)

\* the words made of at most MaxPieces of these pieces (\s is a space in the
\* token); poop is a keyword and Input a built-in, which are not words here
LiteralWords ==
    {joinWith(ws, "") : ws \in SeqsUpTo({"Po", "op", "p", "x", "\\s"}, MaxPieces)} \ {""}

LiteralSources == {srcApply("Print", w) : w \in LiteralWords}

LiteralInit == StartOf(LiteralSources)

LiteralNext == RunOnce \/ StepOn

LiteralSpec == LiteralInit /\ [][LiteralNext]_vars

\* s starts with Po, ends with op and has at least four characters
LooksLiteral(s) ==
    /\ Len(s) >= 4
    /\ SubSeq(s, 1, 2) = "Po"
    /\ SubSeq(s, Len(s) - 1, Len(s)) = "op"

\* the characters of s strictly between its first two and its last two
Between(s) == SubSeq(s, 3, Len(s) - 2)

\* the last step completed a Print application of one word
PrintedWord ==
    /\ Stepped
    /\ last.out # <<>>
    /\ Len(last.before) = 1
    /\ last.before[1].type = "Apply"
    /\ Len(last.before[1].args) = 1

----------------------------------------------------------------------------
(* A function whose body is a function of the same parameter, applied *)

\* bodies B of the inner function: the parameter x at the top and inside a
\* nested Func, MacroDef and Apply, and other tokens
ShadowBodies ==
    Texts({"x", "y"}, MaxSeq)
        \cup {srcFunc("y", "x"), srcFunc("x", "x"), srcMacro("M", "x"), srcApply("x", "x y"),
              srcApply("Print", "x"), srcFunc("y", srcApply("x", "")),
              srcMacro("M", srcFunc("y", "x")), "x " \o srcApply("y", "x")}

\* pooping poop p poops poop p poops B qooq qooq poopy A qooq
ShadowSources ==
    {srcApply(srcFunc(p, srcFunc(p, b)), a) :
        p \in {"x", "y"}, b \in ShadowBodies,
        a \in {"", "PoHiop", "y x"}}

ShadowInit == StartOf(ShadowSources)

ShadowNext == RunOnce \/ StepOn

ShadowSpec == ShadowInit /\ [][ShadowNext]_vars

\* the last step was given one application whose callee is a function with,
\* as body, one function of the same parameter
AppliedShadow ==
    /\ Stepped
    /\ Len(last.before) = 1
    /\ last.before[1].type = "Apply"
    /\ last.before[1].func.type = "Func"
    /\ Len(last.before[1].func.body) = 1
    /\ last.before[1].func.body[1].type = "Func"
    /\ last.before[1].func.body[1].param = last.before[1].func.param

\* C20: an inner binder shadows: substitute(x, A, [Func(x, B)]) is [Func(x, B)]
\* whatever occurrences of the token x the body B holds, at the top or inside
\* nested Func, MacroDef or Apply nodes; the step that applies
\* Func(x, [Func(x, B)]) to A leaves Func(x, B) as the program.
C20_InnerBinderShadows ==
    AppliedShadow =>
        \E f \in {last.before[1].func} :
            /\ substitute(f.param, last.before[1].args, f.body)
                   = [err |-> NoErr, nodes |-> f.body]
            /\ last.err = NoErr
            /\ last.changed
            /\ last.nodes = f.body

\* the function applied to a literal has the parameter in an application
\* inside the inner function
C20_Witness ==
    /\ AppliedShadow
    /\ source = srcApply(srcFunc("x", srcFunc("x", srcApply("x", "x y"))), "PoHiop")
    /\ last.nodes = <<Func("x", <<Apply(Token("x"), <<Token("x"), Token("y")>>)>>)>>

----------------------------------------------------------------------------
(* Stuck terms *)

\* every application in nodes, at any depth, has a node as callee
RECURSIVE WellFormed(_)
WellFormed(nodes) ==
    \A k \in 1..Len(nodes) :
        LET n == nodes[k]
        IN  CASE n.type \in {"Token", "Literal"} -> TRUE
              [] n.type \in {"Func", "MacroDef"} -> WellFormed(n.body)
              [] n.type = "Apply" -> WellFormed(<<n.func>>) /\ WellFormed(n.args)
              [] OTHER -> FALSE

\* n is an application that is stuck under env: its callee is a token that is
\* not Input and names no macro, its arguments are in normal form and, when the
\* callee is Print, some argument is not printable
RECURSIVE NormalNode(_, _)
StuckApplication(n, env) ==
    /\ n.type = "Apply"
    /\ n.func.type = "Token"
    /\ n.func.value # "Input"
    /\ n.func.value \notin DOMAIN env
    /\ \A k \in 1..Len(n.args) : NormalNode(n.args[k], env)
    /\ n.func.value = "Print" => \E k \in 1..Len(n.args) : ~Inert(env, n.args[k])

\* n is a node that no step reduces under env: an inert token or literal, a
\* function whose body mentions no macro, or a stuck application
NormalNode(n, env) ==
    \/ Inert(env, n)
    \/ n.type = "Func" /\ WellFormed(n.body) /\ ~MentionsMacro(n.body, env)
    \/ StuckApplication(n, env)

\* the last step was given a program of nodes in normal form, one of them a
\* stuck application
SteppedOnStuck ==
    /\ Stepped
    /\ \A k \in 1..Len(last.before) : NormalNode(last.before[k], last.env)
    /\ \E k \in 1..Len(last.before) : StuckApplication(last.before[k], last.env)

\* C21: stuck terms are normal forms, not failures: a step on a program that
\* holds only irreducible nodes, among them an application of an unresolved
\* token or a Print whose arguments are not printable, reports no change,
\* raises no error, has no effect and returns the program as it was; the run
\* ends there with nothing logged.
C21_StuckIsNormalForm ==
    SteppedOnStuck =>
        /\ Unchanged
        /\ NoEffect
        /\ last.nodes = last.before
        /\ prog = last.before
        /\ pc = "done"
        /\ errlog = <<>>

\* a run that ended on a Print applied to a function
C21_Witness ==
    /\ SteppedOnStuck
    /\ last.before = <<Apply(Token("Print"), <<Func("x", <<Token("x")>>)>>)>>
    /\ pc = "done"

----------------------------------------------------------------------------
(* A macro that refers to an undefined name *)

\* The program nodes defines a macro M whose body holds the free token y, which
\* names no macro and no built-in, and then uses M: as a node of the program,
\* as the callee of an application, or as an argument of an application of
\* Print or of an unresolved token.
DefinesThenUses(nodes) ==
    /\ Len(nodes) = 2
    /\ nodes[1].type = "MacroDef"
    /\ nodes[1].name = "M"
    /\ FreeIn("y", nodes[1].body)
    /\ DefsIn(nodes[1].body) = {}
    /\ \/ nodes[2] = Token("M")
       \/ /\ nodes[2].type = "Apply"
          /\ nodes[2].func.type = "Token"
          /\ nodes[2].func.value # "Input"
          /\ \A k \in 1..Len(nodes[2].args) : nodes[2].args[k].type \in {"Token", "Literal"}
          /\ \A k \in 1..Len(nodes[2].args) : nodes[2].args[k].value # "Input"
          /\ \/ nodes[2].func.value = "M"
             \/ \E k \in 1..Len(nodes[2].args) : nodes[2].args[k] = Token("M")

\* the run of such a program ended
UsedUndefinedName ==
    /\ pc \in {"done", "failed", "hung"}
    /\ last.kind = "step"
    /\ \E p \in {parseProgram(source)} : p.err = NoErr /\ DefinesThenUses(p.nodes)

\* C22: the run of a program that defines a macro whose body holds a token that
\* is no macro name, no built-in and no bound parameter, and then uses the
\* macro, ends in normal form without an error, and the sequence it ends with
\* holds that token.
C22_UndefinedNameStays ==
    UsedUndefinedName =>
        /\ pc = "done"
        /\ errlog = <<>>
        /\ FreeIn("y", prog)

----------------------------------------------------------------------------
(* One rewrite per step *)

(***************************************************************************)
(* Rewrites(nodes, env, new, mode) is the set of the sequences got from    *)
(* nodes by one rewrite at one place, at any depth, under the macro table  *)
(* env, where new are the nodes parsed from the line read for Input.       *)
(*   mode "expand"  one token naming a macro is replaced by its body;      *)
(*   mode "stated"  a MacroDef is removed, or a macro token is replaced by *)
(*                  its body, or an application of a function by the       *)
(*                  substituted body, or an application of Print by its    *)
(*                  arguments, or an Input token by new;                   *)
(*   mode "actual"  as stated, but the rewrite of a function body is       *)
(*                  expandMacrosDeep.                                      *)
(* In the modes stated and actual a callee whose rewrite is not one node   *)
(* becomes the token ERROR.                                                *)
(***************************************************************************)
RECURSIVE Rewrites(_, _, _, _), RewritesOfNode(_, _, _, _)
Rewrites(nodes, env, new, mode) ==
    IF nodes = <<>> THEN {}
    ELSE {h \o Tail(nodes) : h \in RewritesOfNode(Head(nodes), env, new, mode)}
             \cup {<<Head(nodes)>> \o r : r \in Rewrites(Tail(nodes), env, new, mode)}

\* the sequences that one rewrite puts in the place of the node n
RewritesOfNode(n, env, new, mode) ==
    CASE n.type = "Token" ->
            IF n.value = "Input" THEN (IF mode = "expand" THEN {} ELSE {new})
            ELSE IF n.value \in DOMAIN env THEN {env[n.value]}
            ELSE {}
      [] n.type = "Literal" -> {}
      [] n.type = "MacroDef" ->
            IF mode = "expand"
            THEN {<<MacroDef(n.name, b)>> : b \in Rewrites(n.body, env, new, mode)}
            ELSE {<<>>}
      [] n.type = "Func" ->
            IF mode = "actual"
            THEN {<<Func(n.param, e.nodes)>> :
                      e \in {d \in {expandMacrosDeep(n.body, env)} :
                                 d.err = NoErr /\ ~d.hang /\ d.changed}}
            ELSE {<<Func(n.param, b)>> : b \in Rewrites(n.body, env, new, "expand")}
      [] n.type = "Apply" ->
            {<<Apply(c[1], n.args)>> :
                 c \in {d \in Rewrites(<<n.func>>, env, new, mode) : Len(d) = 1}}
              \cup {<<Apply(Token("ERROR"), n.args)>> :
                        c \in {d \in Rewrites(<<n.func>>, env, new, mode) :
                                   mode # "expand" /\ Len(d) # 1}}
              \cup {<<Apply(n.func, a)>> : a \in Rewrites(n.args, env, new, mode)}
              \cup (IF mode # "expand" /\ n.func.type = "Func"
                    THEN {s.nodes : s \in {t \in {substitute(n.func.param, n.args,
                                                            n.func.body)} :
                                               t.err = NoErr}}
                    ELSE {})
              \cup (IF mode # "expand" /\ n.func = Token("Print") THEN {n.args} ELSE {})
      [] OTHER -> {}

\* the last call of step returned a sequence and reported a change
SteppedChanging == Stepped /\ last.err = NoErr /\ ~last.hang /\ last.changed

\* the nodes that the last call of step got from the line it read
NewNodes == IF last.reads > 0 THEN parseProgram(last.line).nodes ELSE <<>>

\* C23 as stated: the sequence that one call of step returns differs from the
\* one it was given by at most one of: a MacroDef removed, a macro token
\* replaced by its body, an application replaced by the substituted body, a
\* Print application replaced by its arguments, an Input token replaced by the
\* parsed nodes; also when the place is a function body with several macro
\* tokens.  (A callee whose rewrite is not one node is left aside: it may
\* become the token ERROR.)
C23_OneRewriteAsStated ==
    /\ (Stepped /\ Unchanged) => last.nodes = last.before
    /\ SteppedChanging => last.nodes \in Rewrites(last.before, last.env, NewNodes, "stated")

\* C23: one call of step rewrites at most one place of the sequence: a
\* MacroDef is removed, or a macro token is replaced by its body, or an
\* application by the substituted body, or a Print application by its
\* arguments, or an Input token by the parsed nodes, or the body of a function
\* (standing alone or in callee position) by its expansion to a fixed point,
\* which replaces every macro token of the body in that one step; a callee
\* whose rewrite is not one node is replaced by the token ERROR.
C23_OneRewrite ==
    /\ (Stepped /\ Unchanged) => last.nodes = last.before
    /\ SteppedChanging => last.nodes \in Rewrites(last.before, last.env, NewNodes, "actual")

\* a step that replaced the two macro tokens of the body of a callee
C23_Witness ==
    /\ SteppedChanging
    /\ last.before # <<>>
    /\ last.before[1].type = "Apply"
    /\ last.before[1].func = Func("x", <<Token("M"), Token("M")>>)
    /\ last.env = ("M" :> <<Token("y")>>)
    /\ last.nodes[1].func = Func("x", <<Token("y"), Token("y")>>)

----------------------------------------------------------------------------
(* Runs of programs that meet every case of reduceFirst *)

\* macro definitions that come first: none, a name, two names, a macro that
\* names another, a macro that names itself
StepPreludes ==
    {"", srcMacro("M", "y"), srcMacro("M", "y y"), srcMacro("M", "M"),
     srcThen(srcMacro("N", "M"), srcMacro("M", "y"))}

StepCallees ==
    {"Print", "y", "M", srcMacro("M", "y"), srcApply("Print", "PoHiop"),
     srcApply("y", "M")}
        \cup {srcFunc("x", b) : b \in {"x", "M M", "N", srcApply("x", "y"),
                                       srcApply("Print", "x")}}

StepArgs ==
    {"", "PoHiop", "M", "Input", "y PoHiop", srcMacro("M", "y"), srcFunc("x", "x"),
     srcApply("Print", "PoHiop")}

StepSources ==
    {srcThen(p, m) : p \in StepPreludes,
                     m \in {srcApply(c, a) : c \in StepCallees, a \in StepArgs}
                              \cup {"M", "Input", srcFunc("x", "M M"), srcFunc("x", "N")}}
        \cup {srcThen(srcApply(c, a), srcApply("Print", "y")) :
                  c \in {"Print", "y"}, a \in StepArgs}

StepInit == StartOf(StepSources)

StepSpec == StepInit /\ [][Next]_vars

----------------------------------------------------------------------------
(* The callee of an application *)

\* C24: in every state of a run every application in the program, at any
\* depth, has one node as callee (a Token, Literal, Func, MacroDef or Apply),
\* also after an empty argument list was substituted for a parameter in callee
\* position, and no step fails on reading a callee that is missing.
C24_CalleeIsANode ==
    /\ WellFormed(prog)
    /\ last.err # TypeErr

----------------------------------------------------------------------------
(* Termination of one step *)

\* C25: every call of step returns a result or throws, also when the head is a
\* function, or the application of a function, whose body mentions a macro
\* that refers to itself: no call of step enters a loop that does not end.
C25_StepReturns == ~last.hang /\ pc # "hung"

----------------------------------------------------------------------------
(* Substitution *)

\* the words of the source text of nodes, in order (nothing for a callee that
\* is missing)
RECURSIVE Words(_)
Words(nodes) ==
    IF nodes = <<>> THEN <<>>
    ELSE LET n == Head(nodes)
             w == CASE n.type \in {"Token", "Literal"} -> <<n.value>>
                    [] n.type = "Func" ->
                          <<"poop", n.param, "poops">> \o Words(n.body) \o <<"qooq">>
                    [] n.type = "MacroDef" ->
                          <<"poop", n.name, "is">> \o Words(n.body) \o <<"qooq">>
                    [] n.type = "Apply" ->
                          <<"pooping">> \o Words(<<n.func>>) \o <<"poopy">>
                              \o Words(n.args) \o <<"qooq">>
                    [] OTHER -> <<>>
         IN  w \o Words(Tail(nodes))

\* the words of nodes with the words of argNodes in the place of every free
\* occurrence of the token param: as a node of a sequence, in an argument list,
\* in the body of a MacroDef or of a Func of another parameter, in callee
\* position
RECURSIVE WordsReplaced(_, _, _)
WordsReplaced(param, argNodes, nodes) ==
    IF nodes = <<>> THEN <<>>
    ELSE LET n == Head(nodes)
             w == CASE n.type = "Token" ->
                          IF n.value = param THEN Words(argNodes) ELSE <<n.value>>
                    [] n.type = "Literal" -> <<n.value>>
                    [] n.type = "Func" ->
                          <<"poop", n.param, "poops">>
                              \o (IF n.param = param THEN Words(n.body)
                                  ELSE WordsReplaced(param, argNodes, n.body))
                              \o <<"qooq">>
                    [] n.type = "MacroDef" ->
                          <<"poop", n.name, "is">>
                              \o WordsReplaced(param, argNodes, n.body) \o <<"qooq">>
                    [] n.type = "Apply" ->
                          <<"pooping">> \o WordsReplaced(param, argNodes, <<n.func>>)
                              \o <<"poopy">> \o WordsReplaced(param, argNodes, n.args)
                              \o <<"qooq">>
                    [] OTHER -> <<>>
         IN  w \o WordsReplaced(param, argNodes, Tail(nodes))

\* the last step was given a program whose first node applies a function
SteppedOnApplication ==
    /\ Stepped
    /\ last.before # <<>>
    /\ last.before[1].type = "Apply"
    /\ last.before[1].func.type = "Func"
    /\ WellFormed(last.before)

\* C26: substitute(p, A, body) puts a copy of the whole sequence A in the place
\* of every free occurrence of Token(p) in body, whatever the length of A and
\* wherever the occurrence stands (in a sequence, an argument list, the body of
\* a MacroDef or of a Func of another parameter, callee position), and copies
\* every other node: the result reads as body with A written for p.
C26_SubstituteReplacesAll ==
    SteppedOnApplication =>
        \E f \in {last.before[1].func} :
            \E s \in {substitute(f.param, last.before[1].args, f.body)} :
                /\ s.err = NoErr
                /\ Words(s.nodes) = WordsReplaced(f.param, last.before[1].args, f.body)

----------------------------------------------------------------------------
(* The callee is reduced first *)

\* the last step was given a program whose first node is an application
SteppedOnApply ==
    /\ Stepped
    /\ last.before # <<>>
    /\ last.before[1].type = "Apply"
    /\ WellFormed(last.before)

\* C27: when the head of the sequence is Apply(callee, args) and one step on
\* the callee alone reports a change, step returns Apply(c', args) followed by
\* the tail, where c' is what that step made of the callee; args and the tail
\* are as they were and the application is not performed.  No node that
\* reducing the callee produced is dropped or replaced by another token.
C27_CalleeReducedFirst ==
    SteppedOnApply =>
        \A c \in {step(<<last.before[1].func>>, last.env, lazyMode, last.line)} :
            (~Bad(c) /\ c.changed) =>
                /\ last.err = NoErr
                /\ last.changed
                /\ Len(last.nodes) = Len(last.before)
                /\ last.nodes[1].type = "Apply"
                /\ <<last.nodes[1].func>> = c.nodes
                /\ last.nodes[1].args = last.before[1].args
                /\ Tail(last.nodes) = Tail(last.before)
                /\ last.out = c.out /\ last.reads = c.reads /\ last.macros = c.macros

----------------------------------------------------------------------------
(* External effects of one step *)

\* the number of external effects of the last call of step: calls of write,
\* calls of readLine and entries added to the macro table
Effects ==
    Len(last.out) + last.reads + Cardinality(DOMAIN last.macros \ DOMAIN last.env)

----------------------------------------------------------------------------
(* Print waits for its arguments *)

\* the last step was given a program whose first node applies Print to
\* arguments that are not all printable
SteppedOnWaitingPrint ==
    /\ Stepped
    /\ "Print" \notin DOMAIN last.env
    /\ last.before # <<>>
    /\ last.before[1].type = "Apply"
    /\ last.before[1].func = Token("Print")
    /\ \E k \in 1..Len(last.before[1].args) : ~Inert(last.env, last.before[1].args[k])

\* C29: write is called only for an application of Print whose arguments are
\* all literals or tokens that are neither Input nor the name of a macro.  An
\* application of Print with any other argument does not write: the step
\* reduces its arguments by one step (and has the effects of that step only);
\* if they cannot be reduced the application is left as it is and the step
\* reduces the tail.
C29_PrintWaitsForArguments ==
    /\ (Stepped /\ last.out # <<>>) =>
           \E p \in PrintApps(last.before) :
               /\ \A k \in 1..Len(p.args) : Inert(last.env, p.args[k])
               /\ last.out = <<Rendering(p.args)>>
    /\ SteppedOnWaitingPrint =>
           \A a \in {step(last.before[1].args, last.env, lazyMode, last.line)} :
               IF Bad(a) THEN last.err = a.err /\ last.hang = a.hang /\ last.out = <<>>
               ELSE IF a.changed
                    THEN /\ last.changed
                         /\ last.nodes = <<Apply(Token("Print"), a.nodes)>> \o Tail(last.before)
                         /\ last.out = a.out /\ last.reads = a.reads
                         /\ last.macros = a.macros
               ELSE \A r \in {step(Tail(last.before), last.env, lazyMode, last.line)} :
                        /\ last.err = r.err /\ last.hang = r.hang
                        /\ ~Bad(r) =>
                               /\ last.nodes = <<last.before[1]>> \o r.nodes
                               /\ last.changed = r.changed
                        /\ last.out = r.out /\ last.reads = r.reads
                        /\ last.macros = r.macros

\* a step that left a Print applied to a function as it was and completed the
\* Print that follows it
C29_Witness ==
    /\ SteppedOnWaitingPrint
    /\ last.before[1].args = <<Func("x", <<Token("x")>>)>>
    /\ last.nodes = <<last.before[1], Token("y")>>
    /\ last.out = <<"y">>

----------------------------------------------------------------------------
(* The legacy strategy evaluates the arguments first *)

\* the last step was made under the legacy strategy on a program whose first
\* node applies a function whose body holds no token naming a macro and no
\* application of Print, at any depth
SteppedOnLegacyApplication ==
    /\ SteppedOnApplication
    /\ ~lazyMode
    /\ ~MentionsMacro(last.before[1].func.body, last.env)
    /\ PrintApps(last.before[1].func.body) = {}

\* C30: under the legacy strategy, when the callee is a function whose body
\* holds no macro token and no application of Print, the arguments are
\* evaluated before the substitution: a step in which one step on the
\* arguments reports a change returns the application of the same function to
\* the reduced arguments, with the effects of that step, and the body is
\* substituted only in a step in which reducing the arguments reports no
\* change.
C30_LegacyEvaluatesArgumentsFirst ==
    SteppedOnLegacyApplication =>
        \A a \in {step(last.before[1].args, last.env, FALSE, last.line)} :
            IF Bad(a) THEN last.err = a.err /\ last.hang = a.hang
            ELSE IF a.changed
                 THEN /\ last.err = NoErr
                      /\ last.changed
                      /\ last.nodes = <<Apply(last.before[1].func, a.nodes)>>
                                          \o Tail(last.before)
                      /\ last.out = a.out /\ last.reads = a.reads
                      /\ last.macros = a.macros
            ELSE \A s \in {substitute(last.before[1].func.param, last.before[1].args,
                                      last.before[1].func.body)} :
                     /\ last.err = s.err
                     /\ s.err = NoErr =>
                            /\ last.changed
                            /\ last.nodes = s.nodes \o Tail(last.before)
                     /\ NoEffect

\* a step under the legacy strategy that completed the Print in the arguments
\* of a function and left the function applied to what Print returned
C30_Witness ==
    /\ SteppedOnLegacyApplication
    /\ last.before[1]
           = Apply(Func("x", <<Token("x")>>),
                   <<Apply(Token("Print"), <<Literal("PoHiop")>>)>>)
    /\ last.out = <<"Hi">>
    /\ last.nodes = <<Apply(Func("x", <<Token("x")>>), <<Literal("PoHiop")>>)>>

----------------------------------------------------------------------------
(* The legacy strategy falls back to lazy substitution for Print *)

\* the last step was made under the legacy strategy on a program whose first
\* node applies a function whose body, with its macros expanded, holds an
\* application of Print
SteppedOnLegacyPrint ==
    /\ SteppedOnApplication
    /\ ~lazyMode
    /\ \E e \in {expandMacrosDeep(last.before[1].func.body, last.env)} :
           e.err = NoErr /\ ~e.hang /\ PrintApps(e.nodes) # {}

\* C31: under the legacy strategy, when the callee is a function whose
\* macro-expanded body holds an application of Print at any depth, the step
\* does what a step under the lazy strategy does on the same input (same
\* sequence, same effects); when the body is expanded already, that is the
\* substitution of the unevaluated arguments into the body, with no effect of
\* the arguments before it.
C31_LegacyPrintIsLazy ==
    SteppedOnLegacyPrint =>
        /\ \A z \in {step(last.before, last.env, TRUE, last.line)} :
               /\ last.err = z.err /\ last.hang = z.hang
               /\ last.nodes = z.nodes /\ last.changed = z.changed
               /\ last.out = z.out /\ last.reads = z.reads /\ last.macros = z.macros
        /\ ~MentionsMacro(last.before[1].func.body, last.env) =>
               \A s \in {substitute(last.before[1].func.param, last.before[1].args,
                                    last.before[1].func.body)} :
                   /\ last.err = NoErr
                   /\ last.changed
                   /\ last.nodes = s.nodes \o Tail(last.before)
                   /\ NoEffect

\* a step under the legacy strategy that put a Print application, unevaluated,
\* into the Print of the body
C31_Witness ==
    /\ SteppedOnLegacyPrint
    /\ last.before[1].args = <<Apply(Token("Print"), <<Literal("PoHiop")>>)>>
    /\ last.nodes = <<Apply(Token("Print"), last.before[1].args)>>
    /\ last.out = <<>>

----------------------------------------------------------------------------
(* Reduction is leftmost *)

\* the record of the last step is that of the step z on the nodes after the
\* first k nodes, with those k nodes kept in front
KeepsFirst(k, z) ==
    /\ last.err = z.err
    /\ last.hang = z.hang
    /\ (z.err = NoErr /\ ~z.hang) =>
           /\ last.nodes = SubSeq(last.before, 1, k) \o z.nodes
           /\ last.changed = z.changed
           /\ last.out = z.out
           /\ last.reads = z.reads
           /\ last.macros = z.macros

\* the first k nodes of the program of the last step are ones a step on them
\* alone leaves as they are
PassedOver(k) ==
    \E p \in {step(SubSeq(last.before, 1, k), last.env, lazyMode, last.line)} :
        p.err = NoErr /\ ~p.hang /\ ~p.changed

\* the last step was made on a program whose first node is a Literal, or a
\* Token that is neither Input nor the name of a macro
SteppedOverHead ==
    /\ Stepped
    /\ Len(last.before) > 0
    /\ Inert(last.env, last.before[1])

\* C32: when the head is a Literal, or a Token that is neither Input nor a
\* macro name, step returns that head unchanged followed by the result of one
\* step on the tail and reports changed exactly when the tail step does; more
\* generally the nodes to the left of the position a step rewrites (the nodes a
\* step on them alone leaves as they are) are returned unchanged in front of
\* the result of the step on the nodes after them.
C32_ReductionIsLeftmost ==
    /\ SteppedOverHead =>
           KeepsFirst(1, step(Tail(last.before), last.env, lazyMode, last.line))
    /\ Stepped =>
           \A k \in 1..Len(last.before) :
               PassedOver(k) =>
                   KeepsFirst(k, step(SubSeq(last.before, k + 1, Len(last.before)),
                                      last.env, lazyMode, last.line))

\* a step that kept a Literal head and made the Print after it write
C32_Witness ==
    /\ SteppedOverHead
    /\ last.before[1].type = "Literal"
    /\ Len(last.before) = 2
    /\ last.before[2].type = "Apply"
    /\ last.changed
    /\ last.out # <<>>
    /\ last.nodes[1] = last.before[1]

----------------------------------------------------------------------------
(* Literals are never expanded, substituted or read as keywords *)

\* programs with Literals whose raw text is the name of a registered macro
\* (PoXop, PoHiop, Popoopop) or holds a keyword (Popoopop) or the name of a
\* parameter (Poxop): at the top, printed, in callee position, in the body of a
\* function alone and applied, and next to Input
LitPreludes ==
    {"", srcMacro("PoXop", "y"), srcMacro("PoHiop", "y y"), srcMacro("Popoopop", "PoXop")}

LitMains ==
    {"PoXop Popoopop", "Input PoHiop",
     srcApply("Print", "PoXop Popoopop"), srcApply("Print", "Input"),
     srcApply("PoXop", "y"), srcApply("PoHiop", "Input"),
     srcFunc("x", "PoXop"), srcFunc("x", "Popoopop x"),
     srcApply(srcFunc("x", "PoXop x Poxop"), "Popoopop"),
     srcApply(srcFunc("x", srcApply("Print", "x PoXop")), "PoXop PoHiop"),
     srcApply(srcFunc("x", srcApply("PoXop", "x")), "Input")}

LitSources == {srcThen(p, m) : p \in LitPreludes, m \in LitMains}

LitSpec == StartOf(LitSources) /\ [][Next]_vars

\* the number of Literals of raw text v in nodes, at any depth
RECURSIVE LitCount(_, _)
LitCount(v, nodes) ==
    IF nodes = <<>> THEN 0
    ELSE LET n == Head(nodes)
             c == CASE n.type = "Literal" -> IF n.value = v THEN 1 ELSE 0
                    [] n.type \in {"Func", "MacroDef"} -> LitCount(v, n.body)
                    [] n.type = "Apply" -> LitCount(v, <<n.func>>) + LitCount(v, n.args)
                    [] OTHER -> 0
         IN  c + LitCount(v, Tail(nodes))

\* the raw texts of the Literals of nodes, at any depth
RECURSIVE LiteralsOf(_)
LiteralsOf(nodes) ==
    IF nodes = <<>> THEN {}
    ELSE LET n == Head(nodes)
             c == CASE n.type = "Literal" -> {n.value}
                    [] n.type \in {"Func", "MacroDef"} -> LiteralsOf(n.body)
                    [] n.type = "Apply" -> LiteralsOf(<<n.func>>) \cup LiteralsOf(n.args)
                    [] OTHER -> {}
         IN  c \cup LiteralsOf(Tail(nodes))

\* the raw texts of the Literals of the program text code
LiteralsOfText(code) ==
    UNION { IF p.err = NoErr THEN LiteralsOf(p.nodes) ELSE {} : p \in {parseProgram(code)} }

\* the last step ended without an error on a program that was not empty
SteppedOnSome ==
    /\ Stepped
    /\ last.err = NoErr
    /\ ~last.hang
    /\ Len(last.before) > 0

\* the last step was given a Literal whose raw text names a registered macro:
\* at the head, as the callee or as the body of a function
SteppedOnNamedLiteral ==
    /\ SteppedOnSome
    /\ \E n \in {last.before[1]} :
           \/ n.type = "Literal" /\ has(last.env, n.value)
           \/ n.type = "Apply" /\ n.func.type = "Literal" /\ has(last.env, n.func.value)
           \/ n.type = "Func" /\ \E v \in DOMAIN last.env : LitCount(v, n.body) > 0

\* C33: no step changes, expands or substitutes a Literal, whether or not its
\* raw text is the name of a registered macro or holds a keyword: a Literal at
\* the head or in callee position stays, Print writes the inside of its Literal
\* arguments and leaves them, the Literals of the body of a function are all
\* there after the expansion of its macros and after the substitution of its
\* parameter; and every Literal of the program and of the macro table has the
\* raw text of a Literal of the source or of an input line.
C33_LiteralsAreKept ==
    /\ LiteralsOf(prog) \cup UNION {LiteralsOf(macros[k]) : k \in DOMAIN macros}
           \subseteq LiteralsOfText(source) \cup UNION {LiteralsOfText(l) : l \in Lines}
    /\ SteppedOnSome =>
           \E n \in {last.before[1]} :
               /\ n.type = "Literal" => last.nodes[1] = n
               /\ (n.type = "Apply" /\ n.func.type = "Literal") =>
                      /\ last.nodes[1].type = "Apply"
                      /\ last.nodes[1].func = n.func
               /\ ( /\ n.type = "Apply" /\ n.func = Token("Print")
                    /\ n.args # <<>>
                    /\ \A k \in 1..Len(n.args) : n.args[k].type = "Literal" ) =>
                      /\ last.out = <<joinWith([k \in 1..Len(n.args) |-> Between(n.args[k].value)], "")>>
                      /\ last.nodes = n.args \o Tail(last.before)
               /\ n.type = "Func" =>
                      /\ last.nodes[1].type = "Func"
                      /\ \A v \in LiteralsOf(n.body) :
                             LitCount(v, last.nodes[1].body) >= LitCount(v, n.body)
               /\ ( /\ n.type = "Apply" /\ n.func.type = "Func"
                    /\ lazyMode
                    /\ ~MentionsMacro(n.func.body, last.env) ) =>
                      \A v \in LiteralsOf(n.func.body) :
                          LitCount(v, last.nodes) >=
                              LitCount(v, n.func.body) + LitCount(v, Tail(last.before))

\* after `poop PoXop is y qooq`, the step on the function whose body is the
\* Literal PoXop left the Literal in the body
C33_Witness ==
    /\ SteppedOnNamedLiteral
    /\ has(last.env, "PoXop")
    /\ last.before[1] = Func("x", <<Literal("PoXop")>>)
    /\ last.nodes = last.before

----------------------------------------------------------------------------
(* Parameter names and macro names are disjoint *)

\* names written after poop, as they stand in the source: of the variable
\* format, not of it, keywords, and the escapes of newline, tab, CR, backslash
\* and space
NameTexts == {"x", "_", "a_b", "is", "M", "X", "x1", "PoXop", "\\n", "\\t", "\\r", "\\\\", "\\s", "x\\n"}

\* a macro named m whose body is a function of p, defined and used, and a
\* program that reads a line
NameSources ==
    {srcThen(srcMacro(m, srcFunc(p, "y")), m) : m, p \in NameTexts}
        \cup {srcApply(srcFunc(p, p), "Input") : p \in NameTexts}

NameSpec == StartOf(NameSources) /\ [][Next]_vars

\* the params of the Func nodes of nodes, at any depth
RECURSIVE ParamsOf(_)
ParamsOf(nodes) ==
    IF nodes = <<>> THEN {}
    ELSE LET n == Head(nodes)
             c == CASE n.type = "Func" -> {n.param} \cup ParamsOf(n.body)
                    [] n.type = "MacroDef" -> ParamsOf(n.body)
                    [] n.type = "Apply" -> ParamsOf(<<n.func>>) \cup ParamsOf(n.args)
                    [] OTHER -> {}
         IN  c \cup ParamsOf(Tail(nodes))

\* the names of the MacroDef nodes of nodes, at any depth
RECURSIVE MacroNamesOf(_)
MacroNamesOf(nodes) ==
    IF nodes = <<>> THEN {}
    ELSE LET n == Head(nodes)
             c == CASE n.type = "MacroDef" -> {n.name} \cup MacroNamesOf(n.body)
                    [] n.type = "Func" -> MacroNamesOf(n.body)
                    [] n.type = "Apply" -> MacroNamesOf(<<n.func>>) \cup MacroNamesOf(n.args)
                    [] OTHER -> {}
         IN  c \cup MacroNamesOf(Tail(nodes))

\* s matches ^[a-z_]+$
VariableFormat(s) ==
    /\ s # ""
    /\ \A i \in 1..Len(s) : SubSeq(s, i, i) \in LowerOrUnderscore

\* the params and the macro names of the run: of the program, of the bodies of
\* the macro table, and the keys of the table
ParamsOfRun == ParamsOf(prog) \cup UNION {ParamsOf(macros[k]) : k \in DOMAIN macros}

MacroNamesOfRun ==
    DOMAIN macros \cup MacroNamesOf(prog)
        \cup UNION {MacroNamesOf(macros[k]) : k \in DOMAIN macros}

\* C34: in every reachable state of a run the param of every Func node matches
\* ^[a-z_]+$, and the name of every MacroDef node and every key of the macro
\* table does not match it and is none of the single characters newline, CR,
\* tab, backslash; hence no macro name equals a parameter name.
C34_NamesAreDisjoint ==
    /\ \A p \in ParamsOfRun : VariableFormat(p)
    /\ \A m \in MacroNamesOfRun : ~VariableFormat(m) /\ m \notin {"\n", "\r", "\t", "\\"}
    /\ ParamsOfRun \cap MacroNamesOfRun = {}

\* the macro named by one space is registered and the program is its body, a
\* function of a_b
C34_Witness ==
    /\ pc = "running"
    /\ DOMAIN macros = {" "}
    /\ prog = <<Func("a_b", <<Token("y")>>)>>

----------------------------------------------------------------------------
(* Substitution captures *)

\* bodies B of the inner function of y, with the parameter x of the outer
\* function free in them
CaptureBodies ==
    {"x", "x y", "y x", "x x", srcApply("Print", "x y"), srcFunc("z", "x y"),
     srcMacro("M", "x")}

\* arguments A of the outer function, most of them with the token y
CaptureArgs == {"y", "y y", "z y", "PoHiop"}

\* pooping pooping poop x poops poop y poops B qooq qooq poopy A qooq poopy C qooq
CaptureSources ==
    {srcApply(srcApply(srcFunc("x", srcFunc("y", b)), a), c) :
        b \in CaptureBodies, a \in CaptureArgs, c \in {"PoHiop", "z", ""}}

CaptureSpec == StartOf(CaptureSources) /\ [][ShadowNext]_vars

\* the number of tokens named v in nodes, at any depth
RECURSIVE TokenCount(_, _)
TokenCount(v, nodes) ==
    IF nodes = <<>> THEN 0
    ELSE LET n == Head(nodes)
             c == CASE n.type = "Token" -> IF n.value = v THEN 1 ELSE 0
                    [] n.type \in {"Func", "MacroDef"} -> TokenCount(v, n.body)
                    [] n.type = "Apply" -> TokenCount(v, <<n.func>>) + TokenCount(v, n.args)
                    [] OTHER -> 0
         IN  c + TokenCount(v, Tail(nodes))

\* the last step was given, in callee position, the application to A of a
\* function of p whose body is one function of another parameter q with p free
\* in its body B, and A holds the token q
SteppedOnCapture ==
    /\ Stepped
    /\ last.err = NoErr
    /\ Len(last.before) = 1
    /\ last.before[1].type = "Apply"
    /\ \E inner \in {last.before[1].func} :
           /\ inner.type = "Apply"
           /\ inner.func.type = "Func"
           /\ Len(inner.func.body) = 1
           /\ inner.func.body[1].type = "Func"
           /\ inner.func.body[1].param # inner.func.param
           /\ FreeIn(inner.func.param, inner.func.body[1].body)
           /\ \E k \in 1..Len(inner.args) : inner.args[k] = Token(inner.func.body[1].param)

\* the last step applied a function to arguments that do not hold its parameter
SteppedOnClosed ==
    /\ SteppedOnApplication
    /\ last.err = NoErr
    /\ TokenCount(last.before[1].func.param, last.before[1].args) = 0

\* C35: substitution is not capture-avoiding.  When A contains a Token named y
\* and the body contains Func(y, B) with a free occurrence of the substituted
\* parameter inside B, the result contains Func(y, B') where B' is B with A in
\* the place of the parameter, the inserted Token y standing under the binder
\* y; and a later application of a function replaces every token named by its
\* parameter that is free in its body, the inserted ones as well.
C35_SubstitutionCaptures ==
    /\ SteppedOnCapture =>
           \E inner \in {last.before[1].func} :
               \E q \in {inner.func.body[1].param} :
                   /\ Len(last.nodes) = 1
                   /\ last.nodes[1].type = "Apply"
                   /\ last.nodes[1].args = last.before[1].args
                   /\ last.nodes[1].func.type = "Func"
                   /\ last.nodes[1].func.param = q
                   /\ Words(last.nodes[1].func.body)
                          = WordsReplaced(inner.func.param, inner.args, inner.func.body[1].body)
                   /\ TokenCount(q, last.nodes[1].func.body)
                          > TokenCount(q, inner.func.body[1].body)
                   /\ FreeIn(q, last.nodes[1].func.body)
    /\ SteppedOnClosed =>
           /\ Words(last.nodes) = WordsReplaced(last.before[1].func.param, last.before[1].args,
                                                last.before[1].func.body)
                                      \o Words(Tail(last.before))
           /\ ~FreeIn(last.before[1].func.param, last.nodes)

\* the run of (x => y => x y) applied to y and then to PoHiop: the first step
\* gave y => y y, the second step PoHiop PoHiop
C35_Witness ==
    /\ source = srcApply(srcApply(srcFunc("x", srcFunc("y", "x y")), "y"), "PoHiop")
    /\ SteppedOnClosed
    /\ last.before = <<Apply(Func("y", <<Token("y"), Token("y")>>), <<Literal("PoHiop")>>)>>
    /\ last.nodes = <<Literal("PoHiop"), Literal("PoHiop")>>

----------------------------------------------------------------------------
(* Tokens left over after the top-level sequence *)

\* a top-level sequence, then nothing or tokens that parseExprs leaves: a
\* closer and up to six more tokens
LeftoverHeads ==
    {"", "y", "y PoHiop", srcApply("Print", "y"), srcMacro("M", "y"), srcFunc("x", "x"),
     srcApply(srcFunc("x", "x"), "y"), srcThen(srcMacro("M", "y"), "M")}

Leftovers ==
    {"", "qooq", "poopy", "qooq y", "poopy qooq poop", "qooq poopy y is poops",
     "qooq a b c d e", "poopy a b c d e f"}

LeftoverSources == {srcThen(h, t) : h \in LeftoverHeads, t \in Leftovers}

LeftoverSpec == StartOf(LeftoverSources) /\ [][RoundTripNext]_vars

\* s is the end of t
IsSuffix(s, t) == Len(s) <= Len(t) /\ s = SubSeq(t, Len(t) - Len(s) + 1, Len(t))

\* every callee of nodes, at any depth, is one node of the source: no Token
\* named by no word or by words with a space
RECURSIVE CalleesAreWords(_)
CalleesAreWords(nodes) ==
    \A k \in 1..Len(nodes) :
        \E n \in {nodes[k]} :
            /\ n.type \in {"Func", "MacroDef"} => CalleesAreWords(n.body)
            /\ n.type = "Apply" =>
                   /\ CalleesAreWords(<<n.func>>)
                   /\ CalleesAreWords(n.args)
                   /\ n.func.type = "Token" =>
                          /\ n.func.value # ""
                          /\ \A i \in 1..Len(n.func.value) : Char(n.func.value, i) # " "

\* the source was parsed and the parser threw in none of its functions but,
\* possibly, parseProgram
ParsedTopLevel ==
    /\ rt.phase # "none"
    /\ parseExprs(tokenize(source)).err = NoErr

\* C36: parseExprs never consumes a qooq or poopy token itself: what it leaves
\* is the end of the tokens from the first closer that no poop or pooping
\* before it takes, and the words of its nodes are the tokens before it (when
\* every callee is one word of the source);
\* parseProgram fails with an error naming the first 5 leftover tokens at most
\* whenever tokens remain, and returns the nodes only when none remains.
C36_LeftoverTokens ==
    ParsedTopLevel =>
        \E toks \in {tokenize(source)} :
            \E p \in {parseExprs(toks)} :
                /\ IsSuffix(p.rest, toks)
                /\ p.rest # <<>> => p.rest[1] \in {"qooq", "poopy"}
                /\ CalleesAreWords(p.nodes) => Words(p.nodes) \o p.rest = toks
                /\ p.rest # <<>> =>
                       /\ rt.first.nodes = <<>>
                       /\ rt.first.err = "Unexpected tokens at end: "
                              \o jsonArray([k \in 1..(IF Len(p.rest) < 5 THEN Len(p.rest) ELSE 5)
                                               |-> p.rest[k]])
                /\ rt.first.err = NoErr <=> p.rest = <<>>
                /\ rt.first.err = NoErr => rt.first.nodes = p.nodes

\* seven tokens were left over after a Print application and the error names
\* five of them
C36_Witness ==
    /\ ParsedTopLevel
    /\ source = srcThen(srcApply("Print", "y"), "poopy a b c d e f")
    /\ rt.first.err = "Unexpected tokens at end: [\"poopy\",\"a\",\"b\",\"c\",\"d\"]"

----------------------------------------------------------------------------
(* The callee position of an application *)

\* texts of the callee position, of zero, one and several nodes
CalleePositions ==
    {"", "y", "PoHiop", "Print", srcFunc("x", "x"), srcApply("y", "M"),
     "y M", "a b c", "PoHiop y", "Po\\sop \\s", srcThen(srcFunc("x", "x"), "y"),
     srcThen(srcApply("Print", "y"), srcMacro("M", "y"))}

\* texts of the argument list
CalleeArguments == {"", "y", "y PoHiop", srcApply("Print", "y")}

CalleeSources == {srcApply(c, a) : c \in CalleePositions, a \in CalleeArguments}

CalleeSpec == StartOf(CalleeSources) /\ [][RoundTripNext]_vars

\* the callee the parser must make of the nodes fs of the callee position:
\* the one node, or the Token named by their renderings joined by a space
ExpectedCallee(fs) ==
    IF Len(fs) = 1 THEN fs[1]
    ELSE Token(IF Len(fs) = 0 THEN ""
               ELSE toCodeString(fs[1])
                        \o joinWith([k \in 1..(Len(fs) - 1) |-> " " \o toCodeString(fs[k + 1])], ""))

\* the source, an application, was parsed
ParsedApplication ==
    /\ rt.phase # "none"
    /\ source \in CalleeSources

\* C37: when the callee position of `pooping ... poopy` parses to a number of
\* nodes other than one, the parser produces Apply(Token(n), args) where n is
\* the source rendering of those nodes joined by single spaces; when it parses
\* to exactly one node, that node is the callee unchanged; a callee position
\* with zero nodes yields the Token with the empty name.
C37_CalleePosition ==
    ParsedApplication =>
        \A c \in CalleePositions, a \in CalleeArguments :
            source = srcApply(c, a) =>
                \E fs \in {parseProgram(c).nodes} :
                    /\ rt.first.err = NoErr
                    /\ rt.first.nodes = <<Apply(ExpectedCallee(fs), parseProgram(a).nodes)>>
                    /\ Len(fs) = 0 => rt.first.nodes[1].func = Token("")
                    /\ Len(fs) = 1 => rt.first.nodes[1].func = fs[1]
                    /\ c = "a b c" => rt.first.nodes[1].func = Token("a b c")
                    /\ c = srcThen(srcFunc("x", "x"), "y") =>
                           rt.first.nodes[1].func = Token("poop x poops x qooq y")

\* the callee position `PoHiop y`, of two nodes, became the Token PoHiop y
C37_Witness ==
    /\ ParsedApplication
    /\ source = srcApply("PoHiop y", "y PoHiop")
    /\ rt.first.nodes = <<Apply(Token("PoHiop y"), <<Token("y"), Literal("PoHiop")>>)>>

----------------------------------------------------------------------------
(* Sibling Print applications *)

\* two Print applications side by side, then nothing or a macro definition:
\* the first with arguments that are printable, that can be reduced, or that
\* wait (a function, an application of a name that is not yet a macro)
SiblingFirsts ==
    {"y", "PoHiop", "M", "Input", srcFunc("x", "x"), srcApply("M", "z"),
     srcApply("Print", "z")}

SiblingSources ==
    {srcThen(srcApply("Print", a), srcThen(srcApply("Print", b), t)) :
        a \in SiblingFirsts, b \in {"y", "Input"},
        t \in {"", srcMacro("M", srcFunc("x", "x")), srcMacro("M", "w")}}

SiblingSpec == StartOf(SiblingSources) /\ [][Next]_vars

\* n is an application of Print
IsPrintApplication(n) == n.type = "Apply" /\ n.func = Token("Print")

\* the write of the last step was caused by the k-th node of the program, a
\* Print application with printable arguments: the step on the first k nodes
\* writes, the step on the first k - 1 does not
WrittenBy(k) ==
    /\ Stepped
    /\ last.err = NoErr
    /\ last.out # <<>>
    /\ k \in 1..Len(last.before)
    /\ CompletePrint(last.before[k], last.env)
    /\ step(SubSeq(last.before, 1, k), last.env, lazyMode, last.line).out # <<>>
    /\ step(SubSeq(last.before, 1, k - 1), last.env, lazyMode, last.line).out = <<>>

\* the last step made a Print application write that has a Print application
\* to its left in the program
WroteRightOfPrint ==
    \E k \in 1..Len(last.before) :
        /\ WrittenBy(k)
        /\ \E j \in 1..(k - 1) : IsPrintApplication(last.before[j])

\* C38 as stated: a Print application never causes its write before a Print
\* application standing to its left in the same sequence has caused its own
\* write (a Print application that has written is replaced by its arguments,
\* so one that stands in the sequence has not written).
C38_LeftPrintWritesFirst ==
    \A k \in 1..Len(last.before) :
        WrittenBy(k) => \A j \in 1..(k - 1) : ~IsPrintApplication(last.before[j])

\* C38: when a step makes a Print application of the program write, every
\* Print application standing to its left in the program is one whose
\* arguments are not all printable and that a step leaves as it is; such a
\* Print application is passed over and has not written.
C38_OnlyWaitingPrintsArePassed ==
    \A k \in 1..Len(last.before) :
        WrittenBy(k) =>
            \A j \in 1..(k - 1) :
                IsPrintApplication(last.before[j]) =>
                    /\ ~CompletePrint(last.before[j], last.env)
                    /\ \E z \in {step(<<last.before[j]>>, last.env, lazyMode, last.line)} :
                           z.err = NoErr /\ ~z.hang /\ ~z.changed /\ z.out = <<>>
                    /\ last.nodes[j] = last.before[j]

\* the Print of y wrote while the Print to its left, applied to an application
\* of M, stayed: M is defined further right and not registered yet
C38_Witness ==
    /\ WroteRightOfPrint
    /\ WrittenBy(2)
    /\ Len(last.before) = 3
    /\ last.before[1] = Apply(Token("Print"), <<Apply(Token("M"), <<Token("z")>>)>>)
    /\ last.before[3] = MacroDef("M", <<Func("x", <<Token("x")>>)>>)
    /\ last.out = <<"y">>
    /\ last.nodes[1] = last.before[1]

----------------------------------------------------------------------------
(* The web host: the Run and Reset buttons and the input line (ui.js) *)

\* the number of clicks on Run that the model follows
MaxRuns == 2

\* DEFAULT_CODE
DefaultCode ==
    "// Example: Hello World in poop\npoop Greet is\n  poop name poops\n    PoHello\\sop name\n  qooq\nqooq\n\npooping Print poopy\n  pooping Greet poopy\n    PoWorldop\n  qooq\nqooq"

\* texts of the code area: the default code, programs that read one and two
\* lines, that end without reading, that do not parse, that fail in a step
HostSources ==
    {DefaultCode, srcApply("Print", "Input"), "Input Input", srcApply("Print", "y"), "poop",
     srcThen(srcMacro("M", "y"), srcMacro("M", "y"))}

\* lines typed into the input line: one that parses, one that does not
HostLines == {"y", "qooq"}

\* The state of the page, kept in other:
\*   isRunning, inputResolver ("set" when it holds a resolve function)
\*   runDisabled, inputDisabled   the disabled flags of runBtn and of
\*                                inputArea / inputBtn, which change together
\*   box                          inputArea.value
\*   started, ended               interpreters made by the click on Run, and
\*                                calls of run whose await is over
\*   ignoredRuns, ignoredSends    clicks that returned at the first line (the
\*                                first of each is followed)
\*   requests                     for each call of requestInput, the run
\*   delivered                    for each call of resolve, the request
\*                                resolved, the run and the line
HostStart(disabled) ==
    [isRunning |-> FALSE, inputResolver |-> "null", runDisabled |-> FALSE,
     inputDisabled |-> disabled, box |-> "", started |-> 0, ended |-> 0,
     ignoredRuns |-> 0, ignoredSends |-> 0, requests |-> <<>>, delivered |-> <<>>]

\* the page as loaded; the markup, not the script, says whether the input line
\* starts disabled
HostInit ==
    /\ source \in HostSources
    /\ lazyMode = TRUE
    /\ pc = "idle"
    /\ prog = <<>>
    /\ macros = EmptyEnv
    /\ output = <<>>
    /\ errlog = <<>>
    /\ reads = 0
    /\ tick = 0
    /\ last = NoStep
    /\ rt = NoRoundTrip
    /\ \E disabled \in BOOLEAN : other = HostStart(disabled)

\* a click or a key is handled only between the tasks of the page: not while
\* a call of step is under way
PageIdle == pc \in {"idle", "awaiting", "done", "failed"}

\* if (isRunning) return;  were the test left out
runClickAlways(running) == TRUE

\* if (isRunning) return;
runClickAccepted(running) == ~running

\* if (!inputResolver) return;  were the test left out
sendAlways(resolver) == TRUE

\* if (!inputResolver) return;
sendAccepted(resolver) == resolver # "null"

\* isRunning = false; runBtn.disabled = false  once the await of run is over
hostEnded(o) ==
    [o EXCEPT !.isRunning = FALSE, !.runDisabled = FALSE, !.ended = @ + 1]

\* what runEval, the catch of run and the end of the click handler do with the
\* outcome r of step; o is the page after what the caller did
HostContinue(line, r, o) ==
    /\ output' = output \o r.out
    /\ macros' = r.macros
    /\ reads' = reads + r.reads
    /\ tick' = 1 - tick
    /\ last' = StepRecord("step", line, r)
    /\ IF r.hang THEN pc' = "hung" /\ other' = o /\ UNCHANGED <<prog, errlog>>
       ELSE IF r.err # NoErr
            THEN /\ pc' = "failed"
                 /\ errlog' = Append(errlog, "Error parsing: " \o r.err)
                 /\ other' = hostEnded(o)
                 /\ UNCHANGED prog
       ELSE /\ pc' = IF r.changed THEN "running" ELSE "done"
            /\ prog' = r.nodes
            /\ other' = IF r.changed THEN o ELSE hostEnded(o)
            /\ UNCHANGED errlog
    /\ UNCHANGED <<source, lazyMode, rt>>

\* the click on Run
HostRunClick ==
    /\ PageIdle
    /\ other.started < MaxRuns
    /\ IF ~runClickAccepted(other.isRunning)
       THEN /\ other.ignoredRuns = 0
            /\ other' = [other EXCEPT !.ignoredRuns = @ + 1]
            /\ UNCHANGED <<source, lazyMode, pc, prog, macros, output, errlog, reads, tick,
                           last, rt>>
       ELSE /\ \E s \in {runStart(source)} :
                  /\ pc' = s.pc
                  /\ prog' = s.prog
                  /\ errlog' = s.errlog
                  /\ \E o \in {[other EXCEPT !.inputDisabled = TRUE, !.inputResolver = "null",
                                             !.isRunning = TRUE, !.runDisabled = TRUE,
                                             !.started = @ + 1]} :
                         other' = IF s.pc = "failed" THEN hostEnded(o) ELSE o
            /\ macros' = EmptyEnv
            /\ output' = <<>>
            /\ reads' = 0
            /\ tick' = 0
            /\ last' = [NoStep EXCEPT !.kind = "run"]
            /\ UNCHANGED <<source, lazyMode, rt>>

\* the click on Reset; confirmed is the answer to the confirm dialog
resetToDefaultCode(confirmed) ==
    /\ PageIdle
    /\ ~other.isRunning
    /\ source # DefaultCode
    /\ confirmed
    /\ source' = DefaultCode
    /\ errlog' = Append(errlog, "[System] Code has been reset to default example.")
    /\ UNCHANGED <<lazyMode, pc, prog, macros, output, reads, tick, last, rt, other>>

\* one call of step by runEval that does not await input
HostStep ==
    /\ pc = "running"
    /\ WithinBounds
    /\ ~AwaitsInput
    /\ \E r \in {step(prog, macros, lazyMode, "")} : HostContinue("", r, other)

\* a call of step reaches Input
requestInput ==
    /\ pc = "running"
    /\ WithinBounds
    /\ AwaitsInput
    /\ reads < MaxLines
    /\ pc' = "awaiting"
    /\ errlog' = Append(errlog, "Input> ")
    /\ other' = [other EXCEPT !.inputDisabled = FALSE, !.inputResolver = "set",
                              !.requests = Append(@, other.started)]
    /\ UNCHANGED <<source, lazyMode, prog, macros, output, reads, tick, last, rt>>

\* the user types line into the input line, which takes keys while enabled
HostType(line) ==
    /\ PageIdle
    /\ ~other.inputDisabled
    /\ other.box # line
    /\ other' = [other EXCEPT !.box = line]
    /\ UNCHANGED <<source, lazyMode, pc, prog, macros, output, errlog, reads, tick, last, rt>>

\* the click on Send, or Enter in the input line
handleInputSubmit ==
    /\ PageIdle
    /\ IF ~sendAccepted(other.inputResolver)
       THEN /\ other.ignoredSends = 0
            /\ other' = [other EXCEPT !.ignoredSends = @ + 1]
            /\ UNCHANGED <<source, lazyMode, pc, prog, macros, output, errlog, reads, tick,
                           last, rt>>
       ELSE \E o \in {[other EXCEPT !.box = "", !.inputDisabled = TRUE,
                                    !.inputResolver = "null",
                                    !.delivered = Append(@, [request |-> Len(other.requests),
                                                             run |-> other.started,
                                                             line |-> other.box])]} :
                IF pc = "awaiting"
                THEN \E r \in {step(prog, macros, lazyMode, other.box)} :
                         HostContinue(other.box, r, o)
                ELSE /\ other' = o
                     /\ UNCHANGED <<source, lazyMode, pc, prog, macros, output, errlog, reads,
                                    tick, last, rt>>

HostNext ==
    \/ HostRunClick
    \/ \E confirmed \in BOOLEAN : resetToDefaultCode(confirmed)
    \/ HostStep
    \/ requestInput
    \/ \E line \in HostLines : HostType(line)
    \/ handleInputSubmit

HostSpec == HostInit /\ [][HostNext]_vars

\* the interpreters whose call of run is not over
InProgress == other.started - other.ended

\* what a transition of the page does about runs: at most one is in progress,
\* and that is what isRunning and the Run button say; while one is in
\* progress no interpreter is made, the output is not cleared and the code is
\* not changed; a run that ends, normally or with an error, leaves isRunning
\* false and the Run button enabled
OneRunStep ==
    /\ InProgress' \in {0, 1}
    /\ other'.isRunning <=> InProgress' = 1
    /\ other'.runDisabled <=> other'.isRunning
    /\ other.isRunning =>
           /\ other'.started = other.started
           /\ IsPrefix(output, output')
           /\ source' = source
    /\ pc' \in {"done", "failed"} => ~other'.isRunning /\ ~other'.runDisabled
    /\ pc' \in {"running", "awaiting", "hung"} => other'.isRunning

\* C39: in the web host at most one run is in progress at any time: while a
\* run has started and not yet finished or failed (including while it awaits
\* Input), clicking Run starts no second interpreter and does not clear the
\* output, and Reset does not change the code; after every run ends, normally
\* or with an error, isRunning is false again and Run is re-enabled.
C39_OneRunAtATime == [][OneRunStep]_vars

\* a click on Run was ignored while the run awaited a line, and the run then
\* ended with what it had written
C39_Witness ==
    /\ other.ignoredRuns > 0
    /\ other.started = 1
    /\ other.ended = 1
    /\ pc = "done"
    /\ ~other.isRunning
    /\ output # <<>>

----------------------------------------------------------------------------
(* The input line of the web host *)

\* a call of requestInput was not answered yet
Pending == other.inputResolver = "set"

====
